---------------------------- MODULE Spec2Model ----------------------------
(***************************************************************************)
(* A model of the chapter extraction pipeline of storygenerator-           *)
(* preprocessing: the Segmenter, the Merger, the Validator and the         *)
(* Serializer of storygenerator_preprocessing/io.py, and the two drivers   *)
(* extract_html_chapters.py and extract_epub_chapters.py.                  *)
(*                                                                         *)
(* A Python str is a sequence of one-character strings, so that lower(),   *)
(* strip(), the regular expressions and the ordering of strings are        *)
(* computed character by character as the code computes them.  The value   *)
(* None is the one-element sequence <<"None">>, which is no string.        *)
(***************************************************************************)
EXTENDS Integers, Sequences, FiniteSets, TLC

VARIABLES
    pc,         \* the control point of the entry point that runs
    docs,       \* the input: the block streams of the source documents
    file_data,  \* the chapter lists read for a book, by source, in reading order
    chapters,   \* the chapter list the entry point holds
    res,        \* what the last call returned or raised
    out,        \* the text written to the output sink
    books,      \* the books a reader has returned and the entry point has yet to write
    log         \* the calls of the Merger, the Validator and the Serializer so far

vars == <<pc, docs, file_data, chapters, res, out, books, log>>

-----------------------------------------------------------------------------
(* Characters and strings *)

\* The ASCII characters " " (32) to "_" (95) and "a" (97) to "~" (126), each
\* in code point order.
Printable ==
    <<" ", "!", "\"", "#", "$", "%", "&", "'", "(", ")", "*", "+", ",", "-", ".", "/",
      "0", "1", "2", "3", "4", "5", "6", "7", "8", "9", ":", ";", "<", "=", ">", "?",
      "@", "A", "B", "C", "D", "E", "F", "G", "H", "I", "J", "K", "L", "M", "N", "O",
      "P", "Q", "R", "S", "T", "U", "V", "W", "X", "Y", "Z", "[", "\\", "]", "^", "_">>

LowerCase ==
    <<"a", "b", "c", "d", "e", "f", "g", "h", "i", "j", "k", "l", "m", "n", "o",
      "p", "q", "r", "s", "t", "u", "v", "w", "x", "y", "z", "{", "|", "}", "~">>

\* The code point of each character: ord().
OrdTable ==
    [c \in {Printable[i] : i \in 1..Len(Printable)}
            \cup {LowerCase[i] : i \in 1..Len(LowerCase)} \cup {"\t", "\n"} |->
        IF c = "\t" THEN 9
        ELSE IF c = "\n" THEN 10
        ELSE IF \E i \in 1..Len(Printable) : Printable[i] = c
             THEN 31 + (CHOOSE i \in 1..Len(Printable) : Printable[i] = c)
             ELSE 96 + (CHOOSE i \in 1..Len(LowerCase) : LowerCase[i] = c)]

Ord(c) == OrdTable[c]

Chr(n) ==
    IF n = 9 THEN "\t"
    ELSE IF n = 10 THEN "\n"
    ELSE IF n <= 95 THEN Printable[n - 31]
    ELSE LowerCase[n - 96]

\* The character classes of str and of the re module: \d, \s and \w.
DigitChars == {"0", "1", "2", "3", "4", "5", "6", "7", "8", "9"}
SpaceChars == {" ", "\t", "\n"}
UpperChars == {Printable[i] : i \in 34..59}
LowerChars == {LowerCase[i] : i \in 1..26}
WordChars == DigitChars \cup UpperChars \cup LowerChars \cup {"_"}

AllChars == DOMAIN OrdTable
NonDigitChars == AllChars \ DigitChars

IsDigit(c) == c \in DigitChars
IsSpace(c) == c \in SpaceChars
IsUpper(c) == c \in UpperChars
IsLower(c) == c \in LowerChars

LowerChar(c) == IF IsUpper(c) THEN Chr(Ord(c) + 32) ELSE c
UpperChar(c) == IF IsLower(c) THEN Chr(Ord(c) - 32) ELSE c

\* str.lower() and str.upper()
Lower(s) == [i \in 1..Len(s) |-> LowerChar(s[i])]
Upper(s) == [i \in 1..Len(s) |-> UpperChar(s[i])]

None == <<"None">>

\* bool(x) of an Optional[str] or of a list
Truthy(x) == x # None /\ x # <<>>

\* s[from:] for a 1-based from
Drop(s, n) == SubSeq(s, n + 1, Len(s))

\* The index of the last character of the longest run of characters of the
\* class cls that starts at s[i]; i - 1 when s[i] is not in the class.
RECURSIVE SpanEnd(_, _, _)
SpanEnd(s, i, cls) ==
    IF i <= Len(s) /\ s[i] \in cls THEN SpanEnd(s, i + 1, cls) ELSE i - 1

\* str.strip()
Strip(s) ==
    LET idx == {i \in 1..Len(s) : ~IsSpace(s[i])}
    IN  IF idx = {} THEN <<>>
        ELSE SubSeq(s, CHOOSE i \in idx : \A j \in idx : i <= j,
                       CHOOSE i \in idx : \A j \in idx : i >= j)

\* WHITESPACE_PATTERN.split(text.strip()) joined by " ": every run of
\* whitespace inside the stripped text becomes one space.
RECURSIVE CollapseSpaces(_)
CollapseSpaces(s) ==
    IF s = <<>> THEN <<>>
    ELSE IF IsSpace(s[1])
         THEN <<" ">> \o CollapseSpaces(Drop(s, SpanEnd(s, 1, SpaceChars)))
         ELSE <<s[1]>> \o CollapseSpaces(Tail(s))

normalize_spacing(text) == CollapseSpaces(Strip(text))

\* The comparison of two str values by code points: -1, 0 or 1.
RECURSIVE StrCmp(_, _)
StrCmp(a, b) ==
    IF a = <<>> /\ b = <<>> THEN 0
    ELSE IF a = <<>> THEN -1
    ELSE IF b = <<>> THEN 1
    ELSE IF Ord(a[1]) < Ord(b[1]) THEN -1
    ELSE IF Ord(a[1]) > Ord(b[1]) THEN 1
    ELSE StrCmp(Tail(a), Tail(b))

\* int() of a string of decimal digits
RECURSIVE DigitsToInt(_)
DigitsToInt(s) ==
    IF s = <<>> THEN 0
    ELSE 10 * DigitsToInt(SubSeq(s, 1, Len(s) - 1)) + (Ord(s[Len(s)]) - 48)

\* str() of a natural number
RECURSIVE IntToDigits(_)
IntToDigits(n) ==
    IF n < 10 THEN <<Chr(48 + n)>>
    ELSE IntToDigits(n \div 10) \o <<Chr(48 + (n % 10))>>

-----------------------------------------------------------------------------
(* Chapters and their ordering key *)

\* Chapter(seq, title, pars); Chapter() has seq and title None and no pars.
Chapter(seq, title, pars) == [seq |-> seq, title |-> title, pars |-> pars]

EmptyChapter == Chapter(None, None, <<>>)

\* Chapter.__bool__
ChapterBool(c) == Truthy(c.seq) \/ Truthy(c.title) \/ Truthy(c.pars)

\* __atoi: int(text) if text.isdigit() else text
__atoi(text) ==
    IF text # <<>> /\ \A i \in 1..Len(text) : IsDigit(text[i])
    THEN DigitsToInt(text)
    ELSE text

\* __DIGITS_PATTERN.split(text) from position i on, the piece at i being a
\* run of digits (digits = TRUE) or the possibly empty text between two runs.
RECURSIVE DigitsSplit(_, _, _)
DigitsSplit(text, i, digits) ==
    IF digits
    THEN LET e == SpanEnd(text, i, DigitChars)
         IN  <<SubSeq(text, i, e)>> \o DigitsSplit(text, e + 1, FALSE)
    ELSE LET e == SpanEnd(text, i, NonDigitChars)
         IN  IF e = Len(text)
             THEN <<SubSeq(text, i, e)>>
             ELSE <<SubSeq(text, i, e)>> \o DigitsSplit(text, e + 1, TRUE)

\* natural_keys: the pieces at odd positions are str, those at even positions int.
natural_keys(text) ==
    LET pieces == DigitsSplit(text, 1, FALSE)
    IN  [k \in 1..Len(pieces) |-> __atoi(pieces[k])]

\* The comparison of two natural_keys tuples as Python compares tuples: the
\* first position where they differ decides, and a proper prefix is smaller.
RECURSIVE NaturalKeysCmp(_, _, _)
NaturalKeysCmp(a, b, k) ==
    IF k > Len(a) /\ k > Len(b) THEN 0
    ELSE IF k > Len(a) THEN -1
    ELSE IF k > Len(b) THEN 1
    ELSE LET c == IF k % 2 = 1 THEN StrCmp(a[k], b[k])
                  ELSE IF a[k] < b[k] THEN -1
                  ELSE IF a[k] > b[k] THEN 1
                  ELSE 0
         IN  IF c # 0 THEN c ELSE NaturalKeysCmp(a, b, k + 1)

PrologueGroup == -1
NumericGroup == 0
EpilogueGroup == 1
\* float("-inf") as the group of the key the Validator starts from: it is
\* below every group, so the second component of that key is never compared.
NegInf == -2

Prologue == <<"p", "r", "o", "l", "o", "g", "u", "e">>
Epilogue == <<"e", "p", "i", "l", "o", "g", "u", "e">>
NON_NUMERIC_CHAPTER_SEQS == {Prologue, Epilogue}

\* chapter_seq_sort_key with the seq itself, compared as text, in place of
\* its natural keys
chapter_seq_sort_key_lexicographic(seq) ==
    LET group == IF Lower(seq) = Prologue THEN PrologueGroup
                 ELSE IF Lower(seq) = Epilogue THEN EpilogueGroup
                 ELSE NumericGroup
    IN  <<group, <<seq>>>>

chapter_seq_sort_key(seq) ==
    LET group == IF Lower(seq) = Prologue THEN PrologueGroup
                 ELSE IF Lower(seq) = Epilogue THEN EpilogueGroup
                 ELSE NumericGroup
    IN  <<group, natural_keys(seq)>>

\* prev_seq_key > seq_key
KeyGreater(prev, key) ==
    IF prev[1] # key[1] THEN prev[1] > key[1]
    ELSE NaturalKeysCmp(prev[2], key[2], 1) = 1

-----------------------------------------------------------------------------
(* The Validator *)

\* What a call returned or raised: kind "ok" for a return, else the error;
\* idx is the position of the chapter the error names, field the missing field.
Result(kind, idx, field) == [kind |-> kind, idx |-> idx, field |-> field]

Ok == Result("ok", 0, "")

\* __validate_chapter without its last check
validate_chapter_no_pars_check(chapter, idx) ==
    IF ~Truthy(chapter.seq) THEN Result("IncompleteChapter", idx, "seq")
    ELSE IF ~Truthy(chapter.title) THEN Result("IncompleteChapter", idx, "title")
    ELSE Ok

__validate_chapter(chapter, idx) ==
    IF ~Truthy(chapter.seq) THEN Result("IncompleteChapter", idx, "seq")
    ELSE IF ~Truthy(chapter.title) THEN Result("IncompleteChapter", idx, "title")
    ELSE IF ~Truthy(chapter.pars) THEN Result("IncompleteChapter", idx, "pars")
    ELSE Ok

RECURSIVE ValidateFrom(_, _, _)
ValidateFrom(chs, idx, prev_seq_key) ==
    IF idx > Len(chs) THEN Ok
    ELSE IF chs[idx].seq = None
         THEN \* None has no lower(): chapter_seq_sort_key raises
              Result("AttributeError", idx, "seq")
         ELSE LET seq_key == chapter_seq_sort_key(chs[idx].seq)
              IN  IF KeyGreater(prev_seq_key, seq_key)
                  THEN Result("OutOfOrder", idx, "")
                  ELSE LET r == __validate_chapter(chs[idx], idx)
                       IN  IF r # Ok THEN r
                           ELSE ValidateFrom(chs, idx + 1, seq_key)

\* _validate_chapters with prev_seq_key never updated
RECURSIVE ValidateFromStalePrev(_, _, _)
ValidateFromStalePrev(chs, idx, prev_seq_key) ==
    IF idx > Len(chs) THEN Ok
    ELSE IF chs[idx].seq = None
         THEN Result("AttributeError", idx, "seq")
         ELSE IF KeyGreater(prev_seq_key, chapter_seq_sort_key(chs[idx].seq))
              THEN Result("OutOfOrder", idx, "")
              ELSE LET r == __validate_chapter(chs[idx], idx)
                   IN  IF r # Ok THEN r
                       ELSE ValidateFromStalePrev(chs, idx + 1, prev_seq_key)

validate_chapters_stale_prev(chs) == ValidateFromStalePrev(chs, 1, <<NegInf, <<>>>>)

_validate_chapters(chs) == ValidateFrom(chs, 1, <<NegInf, <<>>>>)

-----------------------------------------------------------------------------
(* Blocks and the patterns of the Segmenter *)

\* A text-bearing element of a document: its tag name, its text (.text),
\* whether it holds an <img> (.find("img")), and what else its markup holds:
\* its attributes and the tags inside it.  Two elements are equal (Tag.__eq__:
\* name, attributes and contents) when the four are.
Block(tag, text, img) == [tag |-> tag, text |-> text, img |-> img, markup |-> ""]

\* The element with attributes or inner tags
Marked(block, markup) == [block EXCEPT !.markup = markup]

\* soup.find_all(names): the elements with one of the names, in document order
find_all(doc, names) == SelectSeq(doc, LAMBDA b : b.tag \in names)

\* par.text.split() is not empty
NonBlank(b) == \E i \in 1..Len(b.text) : ~IsSpace(b.text[i])

\* The matchers below take the position i where a piece of a pattern starts
\* and give the position after the piece, or 0 when the piece does not match
\* (0 as the start also gives 0).  All patterns are compiled with IGNORECASE.
MatchLit(s, i, lit) ==
    IF i # 0 /\ i + Len(lit) - 1 <= Len(s) /\ Lower(SubSeq(s, i, i + Len(lit) - 1)) = Lower(lit)
    THEN i + Len(lit)
    ELSE 0

\* cls+ : the greedy run is the only match, what follows it in every pattern
\* here being outside the class
MatchRun(s, i, cls) ==
    IF i # 0 /\ SpanEnd(s, i, cls) >= i THEN SpanEnd(s, i, cls) + 1 ELSE 0

\* of\s+the\s+(?:\w+)\s+Book\s+of from position i
MatchOfTheBookOf(s, i) ==
    LET a == MatchRun(s, MatchLit(s, i, <<"o", "f">>), SpaceChars)
        b == MatchRun(s, MatchLit(s, a, <<"t", "h", "e">>), SpaceChars)
        c == MatchRun(s, MatchRun(s, b, WordChars), SpaceChars)
        d == MatchRun(s, MatchLit(s, c, <<"B", "o", "o", "k">>), SpaceChars)
    IN  MatchLit(s, d, <<"o", "f">>)

\* The\s+End from position 1
MatchTheEnd(s) == MatchLit(s, MatchRun(s, MatchLit(s, 1, <<"T", "h", "e">>), SpaceChars), <<"E", "n", "d">>)

\* SINGLE_BOOK_END_PATTERN.match(text)
SINGLE_BOOK_END_PATTERN(text) ==
    MatchOfTheBookOf(text, MatchRun(text, MatchTheEnd(text), SpaceChars)) # 0

\* MULTI_BOOK_END_PAR_PATTERNS[k].match(text)
MULTI_BOOK_END_PAR_PATTERNS(k, text) ==
    IF k = 1 THEN MatchTheEnd(text) # 0 ELSE MatchOfTheBookOf(text, 1) # 0

MultiPatternCount == 2

\* CHAPTER_HEADER_PATTERN.match(text) is not None: CHAPTER\s*(\d+)?
ChapterHeaderMatches(text) == MatchLit(text, 1, <<"C", "H", "A", "P", "T", "E", "R">>) # 0

\* group(1) of that match: the digits after the optional whitespace, or None
ChapterHeaderGroup(text) ==
    LET a == SpanEnd(text, MatchLit(text, 1, <<"C", "H", "A", "P", "T", "E", "R">>), SpaceChars) + 1
        e == SpanEnd(text, a, DigitChars)
    IN  IF e >= a THEN SubSeq(text, a, e) ELSE None

TITLE_BLACKLIST ==
    {<<"c", "o", "v", "e", "r">>, <<"c", "o", "v", "e", "r", " ", "p", "a", "g", "e">>, <<"t", "i", "t", "l", "e">>, <<"t", "i", "t", "l", "e", " ", "p", "a", "g", "e">>, <<"c", "o", "p", "y", "r", "i", "g", "h", "t">>, <<"c", "o", "p", "y", "r", "i", "g", "h", "t", " ", "p", "a", "g", "e">>,
     <<"d", "e", "d", "i", "c", "a", "t", "i", "o", "n">>, <<"c", "o", "n", "t", "e", "n", "t", "s">>, <<"t", "a", "b", "l", "e", " ", "o", "f", " ", "c", "o", "n", "t", "e", "n", "t", "s">>, <<"m", "a", "p", "s">>, <<"g", "l", "o", "s", "s", "a", "r", "y">>,
     <<"a", "b", "o", "u", "t", " ", "t", "h", "e", " ", "a", "u", "t", "h", "o", "r">>, <<"s", "t", "a", "r", "t">>}

TocTitle == <<"t", "a", "b", "l", "e", " ", "o", "f", " ", "c", "o", "n", "t", "e", "n", "t", "s">>

\* __is_non_numeric_chapter_seq compared without lowering the text
is_non_numeric_chapter_seq_case_sensitive(text) ==
    Len(text) <= 8 /\ text \in NON_NUMERIC_CHAPTER_SEQS

\* _MAX_NON_NUMERIC_CHAPTER_SEQ_LENGTH is the length of the longest of the seqs
__is_non_numeric_chapter_seq(text) ==
    IF \A q \in NON_NUMERIC_CHAPTER_SEQS : Len(text) > Len(q)
    THEN FALSE
    ELSE Lower(text) \in NON_NUMERIC_CHAPTER_SEQS

__is_toc_header(text) ==
    IF Len(text) > Len(TocTitle) THEN FALSE ELSE Lower(text) = TocTitle

\* The loop of _is_book_end over the pair of patterns: texts is the paragraph
\* followed by the stripped texts of the non-blank elements after it.
RECURSIVE MultiEnd(_, _, _)
MultiEnd(texts, k, result) ==
    IF k > MultiPatternCount THEN result
    ELSE IF k > Len(texts)
         THEN \* StopIteration: give up and use the current result
              result
         ELSE MultiEnd(texts, k + 1, MULTI_BOOK_END_PAR_PATTERNS(k, texts[k]))

\* _is_book_end that knows only the pair of patterns
is_book_end_multi_only(par_text, following_ctx) ==
    MultiEnd(<<par_text>> \o [k \in 1..Len(following_ctx) |-> Strip(following_ctx[k].text)],
             1, FALSE)

_is_book_end(par_text, following_ctx) ==
    IF SINGLE_BOOK_END_PATTERN(par_text) THEN TRUE
    ELSE MultiEnd(<<par_text>> \o [k \in 1..Len(following_ctx) |-> Strip(following_ctx[k].text)],
                  1, FALSE)

\* The following context of the element at position idx: the non-blank
\* elements after it.
FollowingCtx(pars, idx) == SelectSeq(Drop(pars, idx), NonBlank)

-----------------------------------------------------------------------------
(* The Segmenter without structured headings *)

\* str() of an integer
IntToStr(n) == IF n < 0 THEN <<"-">> \o IntToDigits(0 - n) ELSE IntToDigits(n)

\* The digits of the text of an int() argument, its underscores between
\* digits removed; <<>> when the text is no such numeral.
RECURSIVE NumeralDigits(_)
NumeralDigits(s) ==
    IF s = <<>> \/ ~IsDigit(s[1]) THEN <<>>
    ELSE IF Len(s) = 1 THEN s
    ELSE IF s[2] = "_"
         THEN IF NumeralDigits(Drop(s, 2)) = <<>> THEN <<>>
              ELSE <<s[1]>> \o NumeralDigits(Drop(s, 2))
         ELSE IF NumeralDigits(Drop(s, 1)) = <<>> THEN <<>>
              ELSE <<s[1]>> \o NumeralDigits(Drop(s, 1))

\* int() that takes a text that is no numeral for 0
py_int_zero_for_no_numeral(text) ==
    LET t == Strip(text)
        signed == t # <<>> /\ t[1] \in {"+", "-"}
        digits == NumeralDigits(IF signed THEN Drop(t, 1) ELSE t)
    IN  IF digits = <<>> THEN [ok |-> TRUE, value |-> 0]
        ELSE [ok |-> TRUE,
              value |-> IF signed /\ t[1] = "-" THEN 0 - DigitsToInt(digits)
                        ELSE DigitsToInt(digits)]

\* int(text) of a str: [ok, value]; ok is FALSE for a ValueError
PyInt(text) ==
    LET t == Strip(text)
        signed == t # <<>> /\ t[1] \in {"+", "-"}
        digits == NumeralDigits(IF signed THEN Drop(t, 1) ELSE t)
    IN  IF digits = <<>> THEN [ok |-> FALSE, value |-> 0]
        ELSE [ok |-> TRUE,
              value |-> IF signed /\ t[1] = "-" THEN 0 - DigitsToInt(digits)
                        ELSE DigitsToInt(digits)]

\* The outcome of a segmentation.  chapters is what the function returns.
\* The other fields record how the elements were used: seen holds the
\* positions of the elements the loop classified, stop the position of the
\* element taken as the end of the book (0 if none), heads the positions of
\* the elements that started the chapters and parblocks the positions of the
\* elements that gave the paragraphs, each in order.
\* The outcome without the accumulator the loop ended with
segmented_without_last_accumulator(err, st) ==
    [err |-> err, chapters |-> SelectSeq(st.chapters, ChapterBool),
     seen |-> st.seen, stop |-> st.stop, heads |-> st.heads, parblocks |-> st.parblocks]

Segmented(err, st) ==
    [err |-> err, chapters |-> SelectSeq(Append(st.chapters, st.current), ChapterBool),
     seen |-> st.seen, stop |-> st.stop, heads |-> st.heads, parblocks |-> st.parblocks]

SegmentFailed(kind) ==
    [err |-> Result(kind, 0, ""), chapters |-> <<>>, seen |-> <<>>,
     stop |-> 0, heads |-> <<>>, parblocks |-> <<>>]

SegmentStart ==
    [chapters |-> <<>>, current |-> EmptyChapter, seen |-> <<>>, stop |-> 0,
     heads |-> <<>>, parblocks |-> <<>>]

\* __parse_title on the iterator that stands before pars[idx]: the title and
\* the position of the last element taken.
RECURSIVE __parse_title(_, _)
__parse_title(pars, idx) ==
    IF idx > Len(pars) THEN [err |-> "StopIteration", title |-> <<>>, at |-> idx]
    ELSE IF normalize_spacing(pars[idx].text) = <<>> /\ pars[idx].img
         THEN \* the header image: take the next element
              __parse_title(pars, idx + 1)
         ELSE IF normalize_spacing(pars[idx].text) = <<>>
              THEN [err |-> "AssertionError", title |-> <<>>, at |-> idx]
              ELSE [err |-> "ok", title |-> normalize_spacing(pars[idx].text), at |-> idx]

\* The loop resumed at the element after the end of the book
resume_after_book_end(pars, idx) == idx + 1

\* break: the loop takes no further element
BreakAt(pars, idx) == Len(pars) + 1

RECURSIVE UnstructuredFrom(_, _, _)

\* The accumulator is put on the list and a chapter with the seq starts at
\* the element head; its title is parsed from the elements after pars[taken].
StartChapter(pars, head, taken, seq, st) ==
    LET t == __parse_title(pars, taken + 1)
    IN  IF t.err # "ok" THEN SegmentFailed(t.err)
        ELSE UnstructuredFrom(pars, t.at + 1,
                 [st EXCEPT !.chapters = Append(st.chapters, st.current),
                            !.current = Chapter(seq, t.title, <<>>),
                            !.heads = Append(st.heads, head)])

\* The seq counted on from the accumulator without the increment
header_without_numeral_no_increment(pars, idx, st) ==
    IF idx + 1 > Len(pars) THEN SegmentFailed("StopIteration")
    ELSE IF Strip(pars[idx + 1].text) # <<>>
         THEN StartChapter(pars, idx, idx + 1, Strip(pars[idx + 1].text), st)
         ELSE IF st.current.seq = None THEN SegmentFailed("TypeError")
              ELSE IF ~PyInt(st.current.seq).ok THEN SegmentFailed("ValueError")
              ELSE StartChapter(pars, idx, idx + 1, IntToStr(PyInt(st.current.seq).value), st)

\* The seq of a header that carries no numeral, read from the next element
\* pars[idx + 1], or counted on from the seq of the accumulator.
HeaderWithoutNumeral(pars, idx, st) ==
    IF idx + 1 > Len(pars) THEN SegmentFailed("StopIteration")
    ELSE IF Strip(pars[idx + 1].text) # <<>>
         THEN StartChapter(pars, idx, idx + 1, Strip(pars[idx + 1].text), st)
         ELSE \* Chapter number is likely an image: increment the last one
              IF st.current.seq = None THEN SegmentFailed("TypeError")
              ELSE IF ~PyInt(st.current.seq).ok THEN SegmentFailed("ValueError")
              ELSE StartChapter(pars, idx, idx + 1,
                                IntToStr(PyInt(st.current.seq).value + 1), st)

\* The table-of-contents header at pars[idx]: the position of the next
\* element the loop takes, 0 when there is no non-blank element after it.
AfterTocHeader(pars, idx) ==
    IF FollowingCtx(pars, idx) = <<>> THEN 0
    ELSE IF Lower(FollowingCtx(pars, idx)[1].text) \in TITLE_BLACKLIST
         THEN idx + 2
         ELSE idx + 1

UnstructuredFrom(pars, idx, st0) ==
    IF idx > Len(pars) THEN Segmented(Ok, st0)
    ELSE LET text == Strip(pars[idx].text)
             st == [st0 EXCEPT !.seen = Append(@, idx)]
         IN
         IF text = <<>> THEN UnstructuredFrom(pars, idx + 1, st0)
         ELSE IF ChapterHeaderMatches(text)
         THEN IF ChapterHeaderGroup(text) # None
              THEN StartChapter(pars, idx, idx, ChapterHeaderGroup(text), st)
              ELSE HeaderWithoutNumeral(pars, idx, st)
         ELSE IF __is_non_numeric_chapter_seq(text)
         THEN StartChapter(pars, idx, idx, Lower(Strip(text)), st)
         ELSE IF __is_toc_header(text)
         THEN IF AfterTocHeader(pars, idx) = 0 THEN SegmentFailed("StopIteration")
              ELSE UnstructuredFrom(pars, AfterTocHeader(pars, idx), st)
         ELSE IF _is_book_end(text, FollowingCtx(pars, idx))
         THEN UnstructuredFrom(pars, BreakAt(pars, idx), [st EXCEPT !.stop = idx])
         ELSE IF normalize_spacing(text) # <<>>
              THEN UnstructuredFrom(pars, idx + 1,
                       [st EXCEPT !.current.pars = Append(@, normalize_spacing(text)),
                                  !.parblocks = Append(@, idx)])
              ELSE UnstructuredFrom(pars, idx + 1, st)

UnstructuredTags == {"p", "blockquote", "h2", "h3"}

_parse_unstructured_chapters(doc) ==
    UnstructuredFrom(find_all(doc, UnstructuredTags), 1, SegmentStart)

-----------------------------------------------------------------------------
(* The Segmenter of the HTML entry point: HTMLChapterReader.__parse_pars of *)
(* extract_html_chapters.py, which knows no numeral in the header, no end   *)
(* of the book and no headings                                              *)

\* HTMLChapterReader.__is_chapter_header
HTMLChapterReader__is_chapter_header(text) == Lower(text) = <<"c", "h", "a", "p", "t", "e", "r">>

\* HTMLChapterReader.__parse_title on the iterator that stands before
\* pars[idx]: one header image at most is passed over.
HTMLChapterReader__parse_title(pars, idx) ==
    IF idx > Len(pars) THEN [err |-> "StopIteration", title |-> <<>>, at |-> idx]
    ELSE IF normalize_spacing(pars[idx].text) = <<>> /\ pars[idx].img
         THEN IF idx + 1 > Len(pars) THEN [err |-> "StopIteration", title |-> <<>>, at |-> idx + 1]
              ELSE IF normalize_spacing(pars[idx + 1].text) = <<>>
                   THEN [err |-> "AssertionError", title |-> <<>>, at |-> idx + 1]
                   ELSE [err |-> "ok", title |-> normalize_spacing(pars[idx + 1].text), at |-> idx + 1]
         ELSE IF normalize_spacing(pars[idx].text) = <<>>
              THEN [err |-> "AssertionError", title |-> <<>>, at |-> idx]
              ELSE [err |-> "ok", title |-> normalize_spacing(pars[idx].text), at |-> idx]

RECURSIVE ParsFrom(_, _, _)

\* chapters.append(current_chapter), the title, current_chapter = Chapter(seq, title)
ParsStartChapter(pars, head, taken, seq, st) ==
    LET t == HTMLChapterReader__parse_title(pars, taken + 1)
    IN  IF t.err # "ok" THEN SegmentFailed(t.err)
        ELSE ParsFrom(pars, t.at + 1,
                 [st EXCEPT !.chapters = Append(st.chapters, st.current),
                            !.current = Chapter(seq, t.title, <<>>),
                            !.heads = Append(st.heads, head)])

\* The header "chapter" at pars[idx]: the seq is read from the next element,
\* or counted on from the seq of the accumulator.
ParsChapterHeader(pars, idx, st) ==
    IF idx + 1 > Len(pars) THEN SegmentFailed("StopIteration")
    ELSE IF Strip(pars[idx + 1].text) # <<>>
         THEN ParsStartChapter(pars, idx, idx + 1, Strip(pars[idx + 1].text), st)
         ELSE IF st.current.seq = None THEN SegmentFailed("TypeError")
              ELSE IF ~PyInt(st.current.seq).ok THEN SegmentFailed("ValueError")
              ELSE ParsStartChapter(pars, idx, idx + 1,
                                    IntToStr(PyInt(st.current.seq).value + 1), st)

\* The loop of __parse_pars from pars[idx] on
ParsFrom(pars, idx, st0) ==
    IF idx > Len(pars) THEN Segmented(Ok, st0)
    ELSE LET text == Strip(pars[idx].text)
             st == [st0 EXCEPT !.seen = Append(@, idx)]
         IN
         IF text = <<>> THEN ParsFrom(pars, idx + 1, st0)
         ELSE IF HTMLChapterReader__is_chapter_header(text)
         THEN ParsChapterHeader(pars, idx, st)
         ELSE IF __is_non_numeric_chapter_seq(text)
         THEN ParsStartChapter(pars, idx, idx, Lower(Strip(text)), st)
         ELSE IF __is_toc_header(text)
         THEN \* next(pars): the element after the header is discarded
              IF idx + 1 > Len(pars) THEN SegmentFailed("StopIteration")
              ELSE ParsFrom(pars, idx + 2, st)
         ELSE IF normalize_spacing(text) # <<>>
              THEN ParsFrom(pars, idx + 1,
                       [st EXCEPT !.current.pars = Append(@, normalize_spacing(text)),
                                  !.parblocks = Append(@, idx)])
              ELSE ParsFrom(pars, idx + 1, st)

ParsTags == {"p", "blockquote"}

HTMLChapterReader__parse_pars(doc) == ParsFrom(find_all(doc, ParsTags), 1, SegmentStart)

-----------------------------------------------------------------------------
(* The Segmenter with structured headings, and the choice between the two *)

\* The positions of the elements of the document with the tag, in order.
RECURSIVE PositionsFrom(_, _, _)
PositionsFrom(doc, tag, from) ==
    IF from > Len(doc) THEN <<>>
    ELSE IF doc[from].tag = tag THEN <<from>> \o PositionsFrom(doc, tag, from + 1)
    ELSE PositionsFrom(doc, tag, from + 1)

\* tag.find_next(name): the position of the first element with the name after
\* the position at, 0 if there is none.
find_next(doc, at, name) ==
    IF PositionsFrom(doc, name, at + 1) = <<>> THEN 0
    ELSE PositionsFrom(doc, name, at + 1)[1]

\* tag.find_all_next(name): the elements with the name after the position at.
find_all_next(doc, at, name) == find_all(Drop(doc, at), {name})

\* The loop of _parse_structured_chapter over the paragraphs pars.
RECURSIVE StructuredPars(_, _, _)
StructuredPars(pars, idx, result) ==
    IF idx > Len(pars) THEN result
    ELSE LET text == Strip(pars[idx].text) IN
         IF text = <<>> THEN StructuredPars(pars, idx + 1, result)
         ELSE IF _is_book_end(text, FollowingCtx(pars, idx)) THEN result
         ELSE IF normalize_spacing(text) # <<>>
              THEN StructuredPars(pars, idx + 1, Append(result, normalize_spacing(text)))
              ELSE StructuredPars(pars, idx + 1, result)

\* _parse_structured_chapter for the header and the title at the positions
_parse_structured_chapter(doc, chapter_header, chapter_title) ==
    LET chapter_header_text == normalize_spacing(doc[chapter_header].text)
        seq == IF ChapterHeaderMatches(chapter_header_text)
               THEN ChapterHeaderGroup(chapter_header_text)
               ELSE Lower(chapter_header_text)
    IN  Chapter(seq, normalize_spacing(doc[chapter_title].text),
                StructuredPars(find_all_next(doc, chapter_title, "p"), 1, <<>>))

\* The dict header_titles after the headers from position k of
\* chapter_headers on: a header equal to one that is already a key keeps the
\* place of that key and replaces its title.
RECURSIVE HeaderTitles(_, _, _, _)
HeaderTitles(doc, chapter_headers, k, header_titles) ==
    IF k > Len(chapter_headers) THEN header_titles
    ELSE LET header == chapter_headers[k]
             chapter_title == find_next(doc, header, "h3")
             same == {n \in 1..Len(header_titles) : doc[header_titles[n].header] = doc[header]}
         IN  IF chapter_title = 0
             THEN HeaderTitles(doc, chapter_headers, k + 1, header_titles)
             ELSE IF same = {}
                  THEN HeaderTitles(doc, chapter_headers, k + 1,
                           Append(header_titles, [header |-> header, title |-> chapter_title]))
                  ELSE HeaderTitles(doc, chapter_headers, k + 1,
                           [n \in 1..Len(header_titles) |->
                               IF n \in same
                               THEN [header |-> header_titles[n].header, title |-> chapter_title]
                               ELSE header_titles[n]])

\* range(0, len(chapter_headers) - 2, 2), 1-based
PairStarts(chapter_headers) ==
    LET count == IF Len(chapter_headers) - 2 <= 0 THEN 0
                 ELSE (Len(chapter_headers) - 2 + 1) \div 2
    IN  [n \in 1..count |-> 2 * n - 1]

_parse_structured_chapters(doc) ==
    LET chapter_headers == PositionsFrom(doc, "h2", 1)
        header_titles == HeaderTitles(doc, chapter_headers, 1, <<>>)
    IN  IF chapter_headers = <<>> THEN <<>>
        ELSE IF Len(header_titles) = Len(chapter_headers)
        THEN [n \in 1..Len(header_titles) |->
                 _parse_structured_chapter(doc, header_titles[n].header, header_titles[n].title)]
        ELSE IF Len(chapter_headers) = 2
        THEN <<_parse_structured_chapter(doc, chapter_headers[1], chapter_headers[2])>>
        ELSE [n \in 1..Len(PairStarts(chapter_headers)) |->
                 _parse_structured_chapter(doc, chapter_headers[PairStarts(chapter_headers)[n]],
                                           chapter_headers[PairStarts(chapter_headers)[n] + 1])]

\* What _parse_chapters returns: err is Ok or the exception raised.
Parsed(err, chs) == [err |-> err, chapters |-> chs]

\* result = structured; if not result: result = unstructured
StructuredOrElse(structured, unstructured) ==
    IF structured # <<>>
    THEN Parsed(Ok, structured)
    ELSE Parsed(unstructured.err, unstructured.chapters)

_parse_chapters(doc) ==
    StructuredOrElse(_parse_structured_chapters(doc), _parse_unstructured_chapters(doc))

-----------------------------------------------------------------------------
(* The Navigation Resolver and the reading of an EPUB file *)

\* WHITESPACE_PATTERN.split(text) of a stripped text: the pieces between the
\* runs of whitespace; one empty piece for the empty text.
RECURSIVE SplitWhitespace(_)
SplitWhitespace(text) ==
    LET e == SpanEnd(text, 1, AllChars \ SpaceChars)
    IN  IF e = Len(text) THEN <<text>>
        ELSE <<SubSeq(text, 1, e)>>
                \o SplitWhitespace(Drop(text, SpanEnd(text, e + 1, SpaceChars)))

\* " ".join(tokens)
RECURSIVE JoinBySpace(_)
JoinBySpace(tokens) ==
    IF tokens = <<>> THEN <<>>
    ELSE IF Len(tokens) = 1 THEN tokens[1]
    ELSE tokens[1] \o <<" ">> \o JoinBySpace(Tail(tokens))

StartsWith(text, prefix) ==
    Len(text) >= Len(prefix) /\ SubSeq(text, 1, Len(prefix)) = prefix

EndsWith(text, suffix) ==
    Len(text) >= Len(suffix) /\ SubSeq(text, Len(text) - Len(suffix) + 1, Len(text)) = suffix

\* EPUBChapterReader.__normalize_chapter_seq
__normalize_chapter_seq(seq) ==
    LET result == IF EndsWith(Lower(seq), <<":">>) THEN SubSeq(seq, 1, Len(seq) - 1) ELSE seq
    IN  IF StartsWith(result, Prologue) THEN Upper(Prologue)
        ELSE IF StartsWith(result, Epilogue) THEN Upper(Epilogue)
        ELSE result

\* A navigation point: the text of its label and the href of its content.
NavPoint(label, src) == [label |-> label, src |-> src]

\* A chapter description: _ChapterDescription(seq, name, src)
_ChapterDescription(seq, name, src) == [seq |-> seq, name |-> name, src |-> src]

\* EPUBChapterReader.__parse_chapter_title: err is "ok" or the exception raised
__parse_chapter_title(title) ==
    LET split == SplitWhitespace(Strip(title))
        tokens == IF Lower(split[1]) = <<"c", "h", "a", "p", "t", "e", "r">> THEN Tail(split) ELSE split
    IN  IF tokens = <<>> THEN [err |-> "IndexError", seq |-> <<>>, name |-> <<>>]
        ELSE [err |-> "ok", seq |-> __normalize_chapter_seq(tokens[1]),
              name |-> JoinBySpace(Tail(tokens))]

\* nav_points_by_src: the navigation points whose label is not blacklisted,
\* grouped by src, the groups in the order of their first point.
RECURSIVE NavPointsBySrc(_, _, _)
NavPointsBySrc(nav_points, k, groups) ==
    IF k > Len(nav_points) THEN groups
    ELSE LET nav == nav_points[k]
             same == {n \in 1..Len(groups) : groups[n].src = nav.src}
         IN  IF Lower(normalize_spacing(nav.label)) \in TITLE_BLACKLIST
             THEN NavPointsBySrc(nav_points, k + 1, groups)
             ELSE IF same = {}
                  THEN NavPointsBySrc(nav_points, k + 1,
                           Append(groups, [src |-> nav.src, labels |-> <<nav.label>>]))
                  ELSE NavPointsBySrc(nav_points, k + 1,
                           [n \in 1..Len(groups) |->
                               IF n \in same
                               THEN [src |-> groups[n].src, labels |-> Append(groups[n].labels, nav.label)]
                               ELSE groups[n]])

\* What the Navigation Resolver returns: err is Ok or the exception raised.
Resolved(err, descs) == [err |-> err, descs |-> descs]

\* The second loop of __parse_navigation
RECURSIVE DescsFrom(_, _, _)
DescsFrom(groups, k, result) ==
    IF k > Len(groups) THEN Resolved(Ok, result)
    ELSE LET joined_label_text == normalize_spacing(JoinBySpace(groups[k].labels))
             parsed == __parse_chapter_title(joined_label_text)
         IN  IF Lower(joined_label_text) \in TITLE_BLACKLIST
             THEN DescsFrom(groups, k + 1, result)
             ELSE IF parsed.err # "ok" THEN Resolved(Result(parsed.err, k, ""), <<>>)
             ELSE DescsFrom(groups, k + 1,
                      Append(result, _ChapterDescription(parsed.seq, parsed.name, groups[k].src)))

\* EPUBChapterReader.__parse_navigation for the navigation points of an element
__parse_navigation(nav_points) == DescsFrom(NavPointsBySrc(nav_points, 1, <<>>), 1, <<>>)

\* sorted(descs, key=lambda desc: chapter_seq_sort_key(desc.seq)): a stable
\* insertion sort
RECURSIVE InsertBySeq(_, _)
InsertBySeq(sorted, desc) ==
    IF sorted = <<>> THEN <<desc>>
    ELSE IF KeyGreater(chapter_seq_sort_key(sorted[Len(sorted)].seq), chapter_seq_sort_key(desc.seq))
         THEN Append(InsertBySeq(SubSeq(sorted, 1, Len(sorted) - 1), desc), sorted[Len(sorted)])
         ELSE Append(sorted, desc)

\* sorted() left out: the descriptions in the order of the navigation
descs_in_navigation_order(descs) == descs

RECURSIVE SortedBySeq(_)
SortedBySeq(descs) ==
    IF descs = <<>> THEN <<>>
    ELSE InsertBySeq(SortedBySeq(SubSeq(descs, 1, Len(descs) - 1)), descs[Len(descs)])

\* The descriptions of all navigation elements of a book, chained.
RECURSIVE AllDescs(_, _, _)
AllDescs(navs, k, result) ==
    IF k > Len(navs) THEN Resolved(Ok, result)
    ELSE LET parsed == __parse_navigation(navs[k])
         IN  IF parsed.err # Ok THEN parsed
             ELSE AllDescs(navs, k + 1, result \o parsed.descs)

\* ordered_chapter_descs of __read_file, or what it raises before the documents
\* are read
OrderedChapterDescs(resolved) ==
    IF resolved.err # Ok THEN resolved
    ELSE IF resolved.descs = <<>>
         THEN \* raise ValueError("No navigation elements found!")
              Resolved(Result("ValueError", 0, ""), <<>>)
         ELSE Resolved(Ok, SortedBySeq(resolved.descs))

\* An EPUB file: the title of the book, its navigation elements (each the
\* sequence of its navigation points) and its documents; the src of a
\* navigation point is the position of a document, or one that no document has.
Epub(title, navs, items) == [title |-> title, navs |-> navs, items |-> items]

\* The loop of __read_file over the ordered chapter descriptions
RECURSIVE ParseDocs(_, _, _, _)

\* chapters.extend(parsed) for the k-th description, and on to the next
ExtendChapters(book, ordered_chapter_descs, k, chs, parsed) ==
    IF parsed.err # Ok THEN Parsed(parsed.err, <<>>)
    ELSE ParseDocs(book, ordered_chapter_descs, k + 1, chs \o parsed.chapters)

ParseDocs(book, ordered_chapter_descs, k, chs) ==
    IF k > Len(ordered_chapter_descs) THEN Parsed(Ok, chs)
    ELSE IF ordered_chapter_descs[k].src \notin 1..Len(book.items)
         THEN \* get_item_with_href gives None: None.get_content()
              Parsed(Result("AttributeError", k, ""), <<>>)
         ELSE ExtendChapters(book, ordered_chapter_descs, k, chs,
                             _parse_chapters(book.items[ordered_chapter_descs[k].src]))

\* __read_file without the test for an empty ordered_chapter_descs
read_ordered_without_empty_test(book, resolved) ==
    IF resolved.err # Ok THEN Parsed(resolved.err, <<>>)
    ELSE ParseDocs(book, SortedBySeq(resolved.descs), 1, <<>>)

\* EPUBChapterReader.__read_file: the chapters of the book's documents
ReadOrdered(book, resolved) ==
    IF resolved.err # Ok THEN Parsed(resolved.err, <<>>)
    ELSE IF resolved.descs = <<>> THEN Parsed(Result("ValueError", 0, ""), <<>>)
    ELSE ParseDocs(book, SortedBySeq(resolved.descs), 1, <<>>)

EPUBChapterReader__read_file(book) == ReadOrdered(book, AllDescs(book.navs, 1, <<>>))

-----------------------------------------------------------------------------
(* The Cross-Document Merger *)

\* What the Merger returns: err is Ok or the exception raised, augend the list
\* as the call left it.
Merged(err, augend) == [err |-> err, augend |-> augend]

\* _merge_file_chapters without the stitching: a chapter with no seq is
\* appended like any other.
merge_file_chapters_no_stitch(addend, augend) == Merged(Ok, augend \o addend)

\* The loop of _merge_file_chapters that skips a chapter with no seq when
\* there is no chapter to attach it to.
RECURSIVE MergeFromDropOrphan(_, _, _)
MergeFromDropOrphan(addend, i, augend) ==
    IF i > Len(addend) THEN Merged(Ok, augend)
    ELSE LET chapter == addend[i]
         IN  IF ~Truthy(chapter.seq)
             THEN IF Truthy(chapter.title)
                  THEN Merged(Result("AssertionError", i, "title"), augend)
                  ELSE IF augend = <<>>
                       THEN MergeFromDropOrphan(addend, i + 1, augend)
                       ELSE MergeFromDropOrphan(addend, i + 1,
                                [augend EXCEPT ![Len(augend)].pars = @ \o chapter.pars])
             ELSE MergeFromDropOrphan(addend, i + 1, Append(augend, chapter))

merge_file_chapters_drop_orphan(addend, augend) == MergeFromDropOrphan(addend, 1, augend)

RECURSIVE MergeFrom(_, _, _)
MergeFrom(addend, i, augend) ==
    IF i > Len(addend) THEN Merged(Ok, augend)
    ELSE LET chapter == addend[i]
         IN  IF ~Truthy(chapter.seq)
             THEN IF Truthy(chapter.title)
                  THEN \* assert not chapter.title
                       Merged(Result("AssertionError", i, "title"), augend)
                  ELSE IF augend = <<>>
                       THEN \* augend[len(augend) - 1] of an empty list
                            Merged(Result("IndexError", i, ""), augend)
                       ELSE MergeFrom(addend, i + 1,
                                [augend EXCEPT ![Len(augend)].pars = @ \o chapter.pars])
             ELSE MergeFrom(addend, i + 1, Append(augend, chapter))

_merge_file_chapters(addend, augend) == MergeFrom(addend, 1, augend)

\* EPUBChapterReader.__call__ without the title: the chapters of the book's
\* documents merged into an empty list
MergeRead(read) ==
    IF read.err # Ok THEN Merged(read.err, <<>>)
    ELSE _merge_file_chapters(read.chapters, <<>>)

EPUBChapterReader__call__(book) == MergeRead(EPUBChapterReader__read_file(book))

\* A source of a book: the path of the file and the chapters read from it.
Source(name, chs) == [name |-> name, chapters |-> chs]

\* sorted(items, key=natural_keys of the name): a stable insertion sort.
RECURSIVE InsertByName(_, _)
InsertByName(sorted, item) ==
    IF sorted = <<>> THEN <<item>>
    ELSE IF NaturalKeysCmp(natural_keys(sorted[Len(sorted)].name),
                           natural_keys(item.name), 1) = 1
         THEN Append(InsertByName(SubSeq(sorted, 1, Len(sorted) - 1), item),
                     sorted[Len(sorted)])
         ELSE Append(sorted, item)

\* sorted(items, key=the name itself): the names compared as text
RECURSIVE InsertByText(_, _)
InsertByText(sorted, item) ==
    IF sorted = <<>> THEN <<item>>
    ELSE IF StrCmp(sorted[Len(sorted)].name, item.name) = 1
         THEN Append(InsertByText(SubSeq(sorted, 1, Len(sorted) - 1), item),
                     sorted[Len(sorted)])
         ELSE Append(sorted, item)

RECURSIVE sorted_by_name_as_text(_)
sorted_by_name_as_text(fd) ==
    IF fd = <<>> THEN <<>>
    ELSE InsertByText(sorted_by_name_as_text(SubSeq(fd, 1, Len(fd) - 1)), fd[Len(fd)])

RECURSIVE SortedByName(_)
SortedByName(fd) ==
    IF fd = <<>> THEN <<>>
    ELSE InsertByName(SortedByName(SubSeq(fd, 1, Len(fd) - 1)), fd[Len(fd)])

RECURSIVE MergeSources(_, _, _)
MergeSources(sorted_file_data, k, result) ==
    IF k > Len(sorted_file_data) THEN Merged(Ok, result)
    ELSE LET m == _merge_file_chapters(sorted_file_data[k].chapters, result)
         IN  IF m.err # Ok THEN m
             ELSE MergeSources(sorted_file_data, k + 1, m.augend)

\* HTMLChapterReader.__merge_file_chapters
HTMLChapterReader__merge_file_chapters(fd) == MergeSources(SortedByName(fd), 1, <<>>)

\* The chapters of a source as the merge leaves them.  The chapters put on
\* the result are the objects the source holds, and the pars of a chapter
\* without seq are added to the pars of the last chapter of the result in
\* place: the r-th chapter with a seq that the merge came to has the pars of
\* the r-th chapter of the result.  taken is the number of chapters with a seq
\* in the sources and chapters before chs.
RECURSIVE SharedWithResult(_, _, _)
SharedWithResult(chs, augend, taken) ==
    IF chs = <<>> THEN <<>>
    ELSE IF ~Truthy(Head(chs).seq)
         THEN <<Head(chs)>> \o SharedWithResult(Tail(chs), augend, taken)
         ELSE IF taken + 1 <= Len(augend)
              THEN <<[Head(chs) EXCEPT !.pars = augend[taken + 1].pars]>>
                      \o SharedWithResult(Tail(chs), augend, taken + 1)
              ELSE <<Head(chs)>> \o SharedWithResult(Tail(chs), augend, taken + 1)

\* The number of chapters with a seq in the first k sources
RECURSIVE HeadedUpTo(_, _)
HeadedUpTo(sorted_file_data, k) ==
    IF k = 0 THEN 0
    ELSE HeadedUpTo(sorted_file_data, k - 1)
            + Cardinality({i \in 1..Len(sorted_file_data[k].chapters) :
                              Truthy(sorted_file_data[k].chapters[i].seq)})

\* file_data after HTMLChapterReader.__merge_file_chapters(file_data) left
\* the result augend, by return or by raising
MergedInPlace(fd, augend) ==
    LET sorted_file_data == SortedByName(fd)
    IN  [n \in 1..Len(fd) |->
            LET k == CHOOSE j \in 1..Len(sorted_file_data) :
                         sorted_file_data[j].name = fd[n].name
            IN  Source(fd[n].name,
                       SharedWithResult(fd[n].chapters, augend,
                                        HeadedUpTo(sorted_file_data, k - 1)))]

-----------------------------------------------------------------------------
(* The Serializer *)

ChapterDelimLen == 64
\* CHAPTER_DELIM = "=" * 64
CHAPTER_DELIM == [i \in 1..ChapterDelimLen |-> "="]

ChapterPrefix == <<"C", "H", "A", "P", "T", "E", "R", " ">>
ColonSpace == <<":", " ">>
Newline == <<"\n">>

\* print(x, file=out) writes x and a newline
PrintLine(x) == x \o Newline

__create_seq_desc(seq) ==
    IF seq \in NON_NUMERIC_CHAPTER_SEQS THEN Upper(seq) ELSE ChapterPrefix \o seq

RECURSIVE PrintAll(_)
PrintAll(pars) ==
    IF pars = <<>> THEN <<>> ELSE PrintLine(Head(pars)) \o PrintAll(Tail(pars))

\* What a write leaves: err is Ok or the exception raised, text what the sink
\* holds when the call ends.
Written(err, text) == [err |-> err, text |-> text]

\* __write_chapter with print("") for the line after the header
write_chapter_one_blank(chapter, idx, text) ==
    IF chapter.seq = None \/ chapter.title = None
    THEN Written(Result("TypeError", idx, ""), text)
    ELSE Written(Ok, text \o PrintLine(__create_seq_desc(chapter.seq) \o ColonSpace \o chapter.title)
                          \o PrintLine(<<>>)
                          \o PrintAll(chapter.pars))

__write_chapter(chapter, idx, text) ==
    IF chapter.seq = None
    THEN \* "CHAPTER " + None
         Written(Result("TypeError", idx, "seq"), text)
    ELSE IF chapter.title = None
    THEN \* seq_desc + ": " + None
         Written(Result("TypeError", idx, "title"), text)
    ELSE Written(Ok, text \o PrintLine(__create_seq_desc(chapter.seq) \o ColonSpace \o chapter.title)
                          \o PrintLine(Newline)
                          \o PrintAll(chapter.pars))

RECURSIVE WriteRest(_, _, _)
WriteRest(chs, idx, text) ==
    IF idx > Len(chs) THEN Written(Ok, text)
    ELSE LET w == __write_chapter(chs[idx], idx,
                      text \o PrintLine(Newline) \o PrintLine(CHAPTER_DELIM))
         IN  IF w.err # Ok THEN w ELSE WriteRest(chs, idx + 1, w.text)

\* write_chapters with the delimiter written before every chapter, the first included
write_chapters_leading_delim(chs) ==
    IF chs = <<>> THEN Written(Result("StopIteration", 0, ""), <<>>)
    ELSE WriteRest(chs, 1, <<>>)

write_chapters(chs) ==
    IF chs = <<>>
    THEN \* next() of an exhausted iterator
         Written(Result("StopIteration", 0, ""), <<>>)
    ELSE LET w == __write_chapter(chs[1], 1, <<>>)
         IN  IF w.err # Ok THEN w ELSE WriteRest(chs, 2, w.text)

\* All sequences over S of length at most n.
SeqsUpTo(S, n) == UNION {[1..k -> S] : k \in 0..n}

-----------------------------------------------------------------------------
(* The two entry points: every HTML file is read, each book is merged and
   validated, and then each book is written; each EPUB file is read, merged
   and written in turn. *)

MaxInfiles == 2

\* An HTML file: its path, the text of its <title> and its elements.
HtmlFile(name, title, doc) == [name |-> name, title |-> title, doc |-> doc]

\* One entry of the log: a call that got as far as returning or raising with
\* the list in hand: the call, the book, the list and whether it returned.
Call(op, title, chs, ok) == [op |-> op, title |-> title, chapters |-> chs, ok |-> ok]

\* file_data[infile_path] = chapters: a path that is a key already keeps its
\* place and gets the chapters, a new path comes last.
PutSource(sources, infile_path, chs) ==
    IF \E k \in 1..Len(sources) : sources[k].name = infile_path
    THEN [k \in 1..Len(sources) |->
             IF sources[k].name = infile_path THEN Source(infile_path, chs) ELSE sources[k]]
    ELSE Append(sources, Source(infile_path, chs))

\* book_file_data[book_title][infile_path] = chapters: the books in the order
\* of their first file, the files of a book in the order they were first
\* read in.
PutFileData(book_file_data, book_title, infile_path, chs) ==
    IF \E n \in 1..Len(book_file_data) : book_file_data[n].title = book_title
    THEN [n \in 1..Len(book_file_data) |->
             IF book_file_data[n].title = book_title
             THEN [title |-> book_title,
                   sources |-> PutSource(book_file_data[n].sources, infile_path, chs)]
             ELSE book_file_data[n]]
    ELSE Append(book_file_data, [title |-> book_title, sources |-> <<Source(infile_path, chs)>>])

\* An exception that leaves the generator HTMLChapterReader.__call__: a
\* StopIteration raised inside a generator surfaces as RuntimeError.
FromGenerator(err) ==
    IF err.kind = "StopIteration" THEN Result("RuntimeError", err.idx, err.field) ELSE err

\* Where the HTML entry point stands when these files, books to merge and
\* books to write are left.
HtmlPc(infiles, book_file_data, to_write) ==
    IF infiles # <<>> THEN "html_read"
    ELSE IF book_file_data # <<>> THEN "html_merge"
    ELSE IF to_write # <<>> THEN "html_write"
    ELSE "done"

\* What the first loop does with the chapters parsed from a file
HtmlKeepFile(infile, parsed) ==
    /\ IF parsed.err # Ok
       THEN /\ pc' = "failed"
            /\ res' = FromGenerator(parsed.err)
            /\ UNCHANGED <<docs, file_data>>
       ELSE /\ docs' = Tail(docs)
            /\ file_data' = IF parsed.chapters # <<>>
                            THEN PutFileData(file_data, normalize_spacing(infile.title),
                                             infile.name, parsed.chapters)
                            ELSE file_data
            /\ pc' = HtmlPc(docs', file_data', books)
            /\ res' = Ok
    /\ UNCHANGED <<chapters, out, books, log>>

\* The first loop of HTMLChapterReader.__call__, one file
HtmlReadFile ==
    /\ pc = "html_read"
    /\ HtmlKeepFile(Head(docs), _parse_chapters(Head(docs).doc))

\* The second loop of HTMLChapterReader.__call__, one book: merge, validate,
\* yield
HtmlMergeBook ==
    /\ pc = "html_merge"
    /\ LET book == Head(file_data)
           merged == HTMLChapterReader__merge_file_chapters(book.sources)
           valid == _validate_chapters(merged.augend)
       IN  IF merged.err # Ok
           THEN /\ pc' = "failed"
                /\ res' = merged.err
                /\ file_data' = [file_data EXCEPT ![1].sources =
                                     MergedInPlace(book.sources, merged.augend)]
                /\ UNCHANGED <<chapters, books, log>>
           ELSE IF valid # Ok
           THEN /\ pc' = "failed"
                /\ res' = valid
                /\ chapters' = merged.augend
                /\ file_data' = [file_data EXCEPT ![1].sources =
                                     MergedInPlace(book.sources, merged.augend)]
                /\ log' = log \o <<Call("merge", book.title, merged.augend, TRUE),
                                   Call("validate", book.title, merged.augend, FALSE)>>
                /\ UNCHANGED books
           ELSE /\ file_data' = Tail(file_data)
                /\ chapters' = merged.augend
                /\ books' = Append(books, [title |-> book.title, chapters |-> merged.augend])
                /\ log' = log \o <<Call("merge", book.title, merged.augend, TRUE),
                                   Call("validate", book.title, merged.augend, TRUE)>>
                /\ pc' = HtmlPc(docs, file_data', books')
                /\ res' = Ok
    /\ UNCHANGED <<docs, out>>

\* The loop of the HTML entry point over dict(reader(infiles)), one book
HtmlWriteBook ==
    /\ pc = "html_write"
    /\ LET book == Head(books)
           w == write_chapters(book.chapters)
       IN  /\ chapters' = book.chapters
           /\ out' = w.text
           /\ res' = w.err
           /\ log' = Append(log, Call("write", book.title, book.chapters, w.err = Ok))
           /\ IF w.err # Ok
              THEN pc' = "failed" /\ UNCHANGED books
              ELSE books' = Tail(books) /\ pc' = HtmlPc(docs, file_data, books')
    /\ UNCHANGED <<docs, file_data>>

\* Where the HTML entry point stands with the reader it defines itself
\* (HTMLChapterReader of extract_html_chapters.py)
ParsPc(infiles, book_file_data, to_write) ==
    IF infiles # <<>> THEN "pars_read"
    ELSE IF book_file_data # <<>> THEN "pars_merge"
    ELSE IF to_write # <<>> THEN "html_write"
    ELSE "done"

\* What the first loop of that reader does with the chapters parsed from a
\* file: they are stored whether there are any or not
ParsKeepFile(infile, parsed) ==
    /\ IF parsed.err # Ok
       THEN /\ pc' = "failed"
            /\ res' = FromGenerator(parsed.err)
            /\ UNCHANGED <<docs, file_data>>
       ELSE /\ docs' = Tail(docs)
            /\ file_data' = PutFileData(file_data, normalize_spacing(infile.title),
                                        infile.name, parsed.chapters)
            /\ pc' = ParsPc(docs', file_data', books)
            /\ res' = Ok
    /\ UNCHANGED <<chapters, out, books, log>>

\* The first loop of HTMLChapterReader.__call__ of extract_html_chapters.py,
\* one file
ParsReadFile ==
    /\ pc = "pars_read"
    /\ ParsKeepFile(Head(docs), HTMLChapterReader__parse_pars(Head(docs).doc))

\* The second loop of that reader, one book: merge, validate, yield.  Its
\* __merge_file_chapters and __validate_chapters do what those of io.py do.
ParsMergeBook ==
    /\ pc = "pars_merge"
    /\ LET book == Head(file_data)
           merged == HTMLChapterReader__merge_file_chapters(book.sources)
           valid == _validate_chapters(merged.augend)
       IN  IF merged.err # Ok
           THEN /\ pc' = "failed"
                /\ res' = merged.err
                /\ file_data' = [file_data EXCEPT ![1].sources =
                                     MergedInPlace(book.sources, merged.augend)]
                /\ UNCHANGED <<chapters, books, log>>
           ELSE IF valid # Ok
           THEN /\ pc' = "failed"
                /\ res' = valid
                /\ chapters' = merged.augend
                /\ file_data' = [file_data EXCEPT ![1].sources =
                                     MergedInPlace(book.sources, merged.augend)]
                /\ log' = log \o <<Call("merge", book.title, merged.augend, TRUE),
                                   Call("validate", book.title, merged.augend, FALSE)>>
                /\ UNCHANGED books
           ELSE /\ file_data' = Tail(file_data)
                /\ chapters' = merged.augend
                /\ books' = Append(books, [title |-> book.title, chapters |-> merged.augend])
                /\ log' = log \o <<Call("merge", book.title, merged.augend, TRUE),
                                   Call("validate", book.title, merged.augend, TRUE)>>
                /\ pc' = ParsPc(docs, file_data', books')
                /\ res' = Ok
    /\ UNCHANGED <<docs, out>>

\* What the EPUB entry point does with what the reader returned or raised
EpubKeepBook(book, merged) ==
    /\ IF merged.err # Ok
       THEN /\ pc' = "failed"
            /\ res' = merged.err
            /\ UNCHANGED <<chapters, books, log>>
       ELSE /\ pc' = "epub_write"
            /\ res' = Ok
            /\ chapters' = merged.augend
            /\ books' = <<[title |-> normalize_spacing(book.title), chapters |-> merged.augend]>>
            /\ log' = Append(log, Call("merge", normalize_spacing(book.title), merged.augend, TRUE))
    /\ UNCHANGED <<docs, file_data, out>>

\* reader(infile) of the EPUB entry point: EPUBChapterReader.__call__
EpubReadBook ==
    /\ pc = "epub_read"
    /\ EpubKeepBook(Head(docs), EPUBChapterReader__call__(Head(docs)))

\* write_chapters(chapters, outf) of the EPUB entry point, and on to the next file
EpubWriteBook ==
    /\ pc = "epub_write"
    /\ LET book == Head(books)
           w == write_chapters(book.chapters)
       IN  /\ out' = w.text
           /\ res' = w.err
           /\ log' = Append(log, Call("write", book.title, book.chapters, w.err = Ok))
           /\ IF w.err # Ok
              THEN pc' = "failed" /\ UNCHANGED <<docs, books>>
              ELSE /\ docs' = Tail(docs)
                   /\ books' = <<>>
                   /\ pc' = IF docs' = <<>> THEN "done" ELSE "epub_read"
    /\ UNCHANGED <<file_data, chapters>>

-----------------------------------------------------------------------------
(* The Validator on its own: _validate_chapters applied to a chapter list *)

MaxChapters == 3

TitleT == <<"T">>
ParP == <<"P">>
Seq2 == <<"2">>
Seq10 == <<"1", "0">>
SeqEpilogueCap == <<"E", "p", "i", "l", "o", "g", "u", "e">>

ValidatorSeqs == {None, <<>>, Seq2, Seq10, Prologue, SeqEpilogueCap}

ValidatorChapters ==
    {Chapter(s, t, p) : s \in ValidatorSeqs, t \in {<<>>, TitleT}, p \in {<<>>, <<ParP>>}}

InitValidate ==
    /\ pc = "validate"
    /\ docs = <<>>
    /\ file_data = <<>>
    /\ chapters \in SeqsUpTo(ValidatorChapters, MaxChapters)
    /\ res = Ok
    /\ out = <<>>
    /\ books = <<>>
    /\ log = <<>>

ValidateChapters ==
    /\ pc = "validate"
    /\ res' = _validate_chapters(chapters)
    /\ pc' = "validated"
    /\ UNCHANGED <<docs, file_data, chapters, out, books, log>>

NextValidate == ValidateChapters

SpecValidate == InitValidate /\ [][NextValidate]_vars

Complete(c) == Truthy(c.seq) /\ Truthy(c.title) /\ Truthy(c.pars)

SeqsOf(chs) == [k \in 1..Len(chs) |-> chs[k].seq]

IsPrologueSeq(s) == s # None /\ Lower(s) = Prologue
IsEpilogueSeq(s) == s # None /\ Lower(s) = Epilogue
IsNumericSeq(s) == s # None /\ ~IsPrologueSeq(s) /\ ~IsEpilogueSeq(s)

\* The positions whose chapter has a smaller ordering key than the chapter before it.
OutOfOrderAt(chs) ==
    {i \in 2..Len(chs) :
        /\ chs[i - 1].seq # None
        /\ chs[i].seq # None
        /\ KeyGreater(chapter_seq_sort_key(chs[i - 1].seq), chapter_seq_sort_key(chs[i].seq))}

Least(S) == CHOOSE i \in S : \A j \in S : i <= j

Ordered(chs) ==
    /\ \A i \in 1..Len(chs) : chs[i].seq # None
    /\ OutOfOrderAt(chs) = {}
    /\ \A i, j \in 1..Len(chs) :
        /\ IsPrologueSeq(chs[i].seq) /\ IsNumericSeq(chs[j].seq) => i < j
        /\ IsEpilogueSeq(chs[i].seq) /\ IsNumericSeq(chs[j].seq) => i > j

\* What the Merger hands to the Validator: every chapter has a seq, and a title
\* that is a string.
FromMerger(chs) == \A i \in 1..Len(chs) : Truthy(chs[i].seq) /\ chs[i].title # None

\* C1 as stated, on the lists the Merger can produce: an accepted list is
\* ordered, and every list that is not is rejected with the out-of-order
\* error naming the first chapter out of order.
C1_Original ==
    pc = "validated" /\ FromMerger(chapters) =>
        /\ res.kind = "ok" => Ordered(chapters)
        /\ OutOfOrderAt(chapters) # {} =>
              res = Result("OutOfOrder", Least(OutOfOrderAt(chapters)), "")

\* C1 (amended): every accepted list is ordered by the ordering key with every
\* prologue before and every epilogue after every numeric chapter; a list
\* that is out of order is never accepted, and it is rejected with the
\* out-of-order error naming the first chapter out of order whenever every
\* chapter before that one is complete.
C1_Ordering ==
    pc = "validated" =>
        /\ res.kind = "ok" => Ordered(chapters)
        /\ OutOfOrderAt(chapters) # {} =>
              /\ res.kind # "ok"
              /\ (\A j \in 1..(Least(OutOfOrderAt(chapters)) - 1) : Complete(chapters[j]))
                    => res = Result("OutOfOrder", Least(OutOfOrderAt(chapters)), "")

C1_Witness ==
    /\ pc = "validated"
    /\ res.kind = "ok"
    /\ Len(chapters) = 3
    /\ IsPrologueSeq(chapters[1].seq)
    /\ IsNumericSeq(chapters[2].seq)
    /\ IsEpilogueSeq(chapters[3].seq)

\* The first field, in the order seq, title, pars, that the chapter lacks.
FirstMissing(c) ==
    IF ~Truthy(c.seq) THEN "seq" ELSE IF ~Truthy(c.title) THEN "title" ELSE "pars"

IncompleteAt(chs) == {i \in 1..Len(chs) : ~Complete(chs[i])}

\* C2 as stated, on the lists the Merger can produce: every chapter of an
\* accepted list is complete, and a list with an incomplete chapter is
\* rejected with the incomplete-chapter error that names a field the chapter
\* lacks.
C2_Original ==
    pc = "validated" /\ FromMerger(chapters) =>
        /\ res.kind = "ok" => \A i \in 1..Len(chapters) : Complete(chapters[i])
        /\ IncompleteAt(chapters) # {} =>
              /\ res.kind = "IncompleteChapter"
              /\ res.idx \in IncompleteAt(chapters)
              /\ res.field = FirstMissing(chapters[res.idx])

\* C2 (amended): every chapter of an accepted list has a non-empty seq, a
\* non-empty title and at least one paragraph, and a list with an incomplete
\* chapter is never accepted.  The error is that of the first failing chapter:
\* it is the incomplete-chapter error naming the first missing field (in the
\* order seq, title, pars) when that chapter is the first incomplete one, no
\* chapter up to it is out of order and its seq is not None.
C2_Completeness ==
    pc = "validated" =>
        /\ res.kind = "ok" => \A i \in 1..Len(chapters) : Complete(chapters[i])
        /\ IncompleteAt(chapters) # {} =>
              LET j == Least(IncompleteAt(chapters))
              IN  /\ res.kind # "ok"
                  /\ res.idx <= j
                  /\ (chapters[j].seq # None /\ \A i \in OutOfOrderAt(chapters) : i > j)
                        => res = Result("IncompleteChapter", j, FirstMissing(chapters[j]))
        /\ res.kind = "IncompleteChapter" =>
              /\ res.idx = Least(IncompleteAt(chapters))
              /\ res.field = FirstMissing(chapters[res.idx])

C2_Witness ==
    /\ pc = "validated"
    /\ res = Result("IncompleteChapter", 2, "pars")
    /\ Complete(chapters[1])
    /\ Truthy(chapters[2].seq)
    /\ Truthy(chapters[2].title)

-----------------------------------------------------------------------------
(* The Merger on its own: HTMLChapterReader.__merge_file_chapters applied to *)
(* the sources read for one book                                            *)

MaxBookChapters == 3

Name001 == <<"b", "_", "0", "0", "1", ".", "h", "t", "m", "l">>
Name002 == <<"b", "_", "0", "0", "2", ".", "h", "t", "m", "l">>
Name10 == <<"b", "_", "1", "0", ".", "h", "t", "m", "l">>
Name2 == <<"b", "_", "2", ".", "h", "t", "m", "l">>
SourceNames == {Name001, Name002, Name10, Name2}

Seq1 == <<"1">>
TitleOne == <<"O", "n", "e">>
TitleTwo == <<"T", "w", "o">>
ParA == <<"A", ".">>
ParB == <<"B", ".">>
ParC == <<"C", ".">>
ParD == <<"D", ".">>

FullChapter1 == Chapter(Seq1, TitleOne, <<ParA>>)
FullChapter2 == Chapter(Seq2, TitleTwo, <<ParB>>)
\* what the Segmenter emits for the text before the first header of a document
Headerless == Chapter(None, None, <<ParC>>)
\* what the structured path emits for a heading "Chapter" without a numeral
TitledNoSeq == Chapter(None, TitleT, <<ParD>>)

MergerChapters == {FullChapter1, FullChapter2, Headerless, TitledNoSeq}

\* The chapter lists of the sources: cs cut after the positions in cuts.
RECURSIVE CutAt(_, _, _)
CutAt(cs, cuts, from) ==
    IF cuts = {} THEN <<SubSeq(cs, from, Len(cs))>>
    ELSE LET c == Least(cuts)
         IN  <<SubSeq(cs, from, c)>> \o CutAt(cs, cuts \ {c}, c + 1)

\* The book cs spread over sources: cut after the positions in cuts, the
\* k-th part read from the file names[k].
SpreadOver(cs, cuts, names) ==
    LET groups == CutAt(cs, cuts, 1)
    IN  [k \in 1..Len(groups) |-> Source(names[k], groups[k])]

\* Every way a book of at most MaxBookChapters chapters can be spread over
\* sources with distinct names, read in any order.
InitMerge ==
    /\ pc = "merge"
    /\ docs = <<>>
    /\ \E cs \in UNION {[1..n -> MergerChapters] : n \in 1..MaxBookChapters} :
       \E cuts \in {c \in SUBSET (1..(Len(cs) - 1)) : Cardinality(c) < Cardinality(SourceNames)} :
       \E names \in {f \in [1..(Cardinality(cuts) + 1) -> SourceNames] :
                        \A a, b \in DOMAIN f : a # b => f[a] # f[b]} :
          file_data = SpreadOver(cs, cuts, names)
    /\ chapters = <<>>
    /\ res = Ok
    /\ out = <<>>
    /\ books = <<>>
    /\ log = <<>>

MergeFileChapters ==
    /\ pc = "merge"
    /\ LET m == HTMLChapterReader__merge_file_chapters(file_data)
       IN  /\ res' = m.err
           /\ chapters' = IF m.err = Ok THEN m.augend ELSE chapters
           /\ file_data' = MergedInPlace(file_data, m.augend)
    /\ pc' = "merged"
    /\ UNCHANGED <<docs, out, books, log>>

NextMerge == MergeFileChapters

SpecMerge == InitMerge /\ [][NextMerge]_vars

RECURSIVE Flatten(_)
Flatten(lists) ==
    IF lists = <<>> THEN <<>> ELSE Head(lists) \o Flatten(Tail(lists))

\* The chapters of the book's sources, the sources in natural order of their names.
SourceChapters(fd) ==
    LET sorted == SortedByName(fd)
    IN  Flatten([k \in 1..Len(sorted) |-> sorted[k].chapters])

\* The positions of the chapters that have a seq.
Headed(flat) == {i \in 1..Len(flat) : Truthy(flat[i].seq)}

\* The k-th smallest element of a set of numbers.
RECURSIVE Kth(_, _)
Kth(S, k) == IF k = 1 THEN Least(S) ELSE Kth(S \ {Least(S)}, k - 1)

\* The paragraphs of the chapters at positions from..to, in order.
ParsOf(flat, from, to) == Flatten([i \in 1..(to - from + 1) |-> flat[from + i - 1].pars])

\* The merged list of a merge that succeeds, against the sources as they
\* were before the merge
Stitched(fd, merged) ==
    LET flat == SourceChapters(fd)
        heads == Headed(flat)
    IN  /\ Len(merged) = Cardinality(heads)
        /\ \A k \in 1..Len(merged) :
              LET h == Kth(heads, k)
                  next == IF k < Len(merged) THEN Kth(heads, k + 1) ELSE Len(flat) + 1
              IN  /\ merged[k].seq = flat[h].seq
                  /\ merged[k].title = flat[h].title
                  /\ merged[k].pars = ParsOf(flat, h, next - 1)
        /\ fd = <<Source(Name001, <<FullChapter1>>), Source(Name002, <<Headerless>>)>>
              => merged = <<Chapter(Seq1, TitleOne, <<ParA, ParC>>)>>

StitchingStep == (pc = "merge" /\ res' = Ok) => Stitched(file_data, chapters')

\* C4: when the merge succeeds the merged list holds exactly the chapters
\* that have a seq, in source order, and the pars of each are its own
\* followed by those of the seq-less chapters between it and the next chapter
\* with a seq; b_001.html with one full chapter and b_002.html starting with
\* a headerless paragraph give one chapter with both paragraphs.
C4_Stitching == [][StitchingStep]_vars

\* After the merge the chapter of b_001.html holds both paragraphs in the
\* source too: it is the object the merged list holds.
C4_Witness ==
    /\ pc = "merged"
    /\ res = Ok
    /\ file_data = <<Source(Name001, <<Chapter(Seq1, TitleOne, <<ParA, ParC>>)>>),
                     Source(Name002, <<Headerless>>)>>
    /\ Len(chapters) = 1
    /\ chapters[1].pars = <<ParA, ParC>>

\* C5: when the first chapter of the book, the sources taken in natural order
\* of their names, has no seq, the merge raises and returns no list.
C5_NoPredecessor ==
    pc = "merged" /\ ~Truthy(SourceChapters(file_data)[1].seq) =>
        /\ res.kind \in {"IndexError", "AssertionError"}
        /\ res.idx = 1
        /\ chapters = <<>>

C5_Witness ==
    /\ pc = "merged"
    /\ Len(file_data) = 2
    /\ SourceChapters(file_data)[1] = Headerless
    /\ Truthy(SourceChapters(file_data)[2].seq)
    /\ res.kind = "IndexError"
    /\ chapters = <<>>

\* The sources in the order the claim states: by the natural keys of their
\* names, two names with equal keys in the order they were read: a source is taken
\* after those whose key is smaller and those of equal key read before it.
NaturalOrder(fd) ==
    LET keys == [n \in 1..Len(fd) |-> natural_keys(fd[n].name)]
        \* the key of the source read as m-th against that of a later one
        cmp == [m \in 1..Len(fd) |->
                   [n \in (m + 1)..Len(fd) |-> NaturalKeysCmp(keys[m], keys[n], 1)]]
        before(n) == {m \in 1..Len(fd) : (m < n /\ cmp[m][n] \in {-1, 0})
                                             \/ (m > n /\ cmp[n][m] = 1)}
    IN  [k \in 1..Len(fd) |->
            fd[CHOOSE n \in 1..Len(fd) : Cardinality(before(n)) = k - 1]]

\* The outcome of a merge against that of the merge of the one list flat
EndsAs(whole, flat, err, merged) ==
    /\ err.kind = whole.err.kind
    /\ err = Ok =>
          /\ merged = whole.augend
          /\ SeqsOf(merged) = SeqsOf(SelectSeq(flat, LAMBDA c : Truthy(c.seq)))

EndsAsMergeOf(flat, err, merged) == EndsAs(MergeFrom(flat, 1, <<>>), flat, err, merged)

ChaptersInOrder(order) == Flatten([k \in 1..Len(order) |-> order[k].chapters])

\* The outcome of a merge against the sources as they were before it
InNaturalSourceOrder(fd, err, merged) ==
    /\ EndsAsMergeOf(ChaptersInOrder(NaturalOrder(fd)), err, merged)
    /\ NaturalKeysCmp(natural_keys(Name2), natural_keys(Name10), 1) = -1
    /\ fd = <<Source(Name10, <<FullChapter2>>), Source(Name2, <<FullChapter1>>)>>
          => merged = <<FullChapter1, FullChapter2>>

NaturalSourceOrderStep == pc = "merge" => InNaturalSourceOrder(file_data, res', chapters')

\* C12: the sources are taken in natural order of their names whatever the
\* order they were read in, "b_2.html" before "b_10.html": the merge ends as
\* the merge of their chapter lists concatenated in that order does, and the
\* merged list holds the chapters with a seq of that concatenation in its
\* order; a book read as b_10.html (chapter 2) then b_2.html (chapter 1) is
\* merged into chapter 1, chapter 2.
C12_NaturalSourceOrder == [][NaturalSourceOrderStep]_vars

C12_Witness ==
    /\ pc = "merged"
    /\ res = Ok
    /\ file_data = <<Source(Name10, <<FullChapter2>>), Source(Name2, <<FullChapter1>>)>>
    /\ chapters = <<FullChapter1, FullChapter2>>

-----------------------------------------------------------------------------
(* The Serializer on its own: write_chapters applied to a chapter list *)

TitleTheStart == <<"T", "h", "e", " ", "S", "t", "a", "r", "t">>
ParOne == <<"P", "a", "r", " ", "o", "n", "e", ".">>
ParTwo == <<"P", "a", "r", " ", "t", "w", "o", ".">>
SeqPrologueCap == <<"P", "r", "o", "l", "o", "g", "u", "e">>
SeqEpilogueUpper == <<"E", "P", "I", "L", "O", "G", "U", "E">>

\* What the drivers can hand to the Serializer: every chapter has a seq and a
\* title that is a string; the seq of a prologue or epilogue is stored as the
\* document spelled it when it follows a bare "Chapter" header.
SerializerChapters ==
    {Chapter(q, t, p) : q \in {Seq1, Prologue, SeqPrologueCap, SeqEpilogueUpper},
                        t \in {TitleTheStart, <<>>},
                        p \in {<<>>, <<ParOne, ParTwo>>}}

InitWrite ==
    /\ pc = "write"
    /\ docs = <<>>
    /\ file_data = <<>>
    /\ chapters \in SeqsUpTo(SerializerChapters, MaxChapters)
    /\ res = Ok
    /\ out = <<>>
    /\ books = <<>>
    /\ log = <<>>

WriteChapters ==
    /\ pc = "write"
    /\ LET w == write_chapters(chapters)
       IN  /\ res' = w.err
           /\ out' = w.text
    /\ pc' = "written"
    /\ UNCHANGED <<docs, file_data, chapters, books, log>>

NextWrite == WriteChapters

SpecWrite == InitWrite /\ [][NextWrite]_vars

\* The lines of a text, each without the newline that ends it.
RECURSIVE Lines(_)
Lines(text) ==
    IF text = <<>> THEN <<>>
    ELSE LET e == SpanEnd(text, 1, AllChars \ {"\n"})
         IN  <<SubSeq(text, 1, e)>> \o Lines(Drop(text, e + 1))

IsDigits(q) == q # None /\ q # <<>> /\ \A i \in 1..Len(q) : IsDigit(q[i])

\* C6: a list of one chapter with a numeric seq s, title t and paragraphs
\* p1..pn is written as "CHAPTER s: t", two empty lines, and the paragraphs,
\* one per line, and nothing else; the fixture of the spec is written as
\* "CHAPTER 1: The Start\n\n\nPar one.\nPar two.\n".
C6_SingleChapter ==
    pc = "written" /\ Len(chapters) = 1 /\ IsDigits(chapters[1].seq) =>
        LET c == chapters[1]
        IN  /\ res = Ok
            /\ out = <<"C", "H", "A", "P", "T", "E", "R", " ">> \o c.seq \o <<":", " ">> \o c.title \o <<"\n", "\n", "\n">>
                        \o Flatten([i \in 1..Len(c.pars) |-> c.pars[i] \o <<"\n">>])
            /\ c = Chapter(Seq1, TitleTheStart, <<ParOne, ParTwo>>) =>
                  out = <<"C", "H", "A", "P", "T", "E", "R", " ", "1", ":", " ", "T", "h", "e", " ", "S", "t", "a", "r", "t", "\n">> \o <<"\n", "\n">>
                        \o <<"P", "a", "r", " ", "o", "n", "e", ".", "\n", "P", "a", "r", " ", "t", "w", "o", ".", "\n">>

C6_Witness ==
    /\ pc = "written"
    /\ res = Ok
    /\ chapters = <<Chapter(Seq1, TitleTheStart, <<ParOne, ParTwo>>)>>
    /\ Len(out) = 41

\* The lines that open a chapter in a written text: the first line and every
\* line that follows a delimiter line.
HeaderLines(text) ==
    LET ls == Lines(text)
        at == {i \in 1..Len(ls) : i = 1 \/ ls[i - 1] = CHAPTER_DELIM}
    IN  [k \in 1..Cardinality(at) |-> ls[Kth(at, k)]]

\* The header line C7 states for a chapter.
ClaimedHeader(c) ==
    IF IsPrologueSeq(c.seq) THEN <<"P", "R", "O", "L", "O", "G", "U", "E", ":", " ">> \o c.title
    ELSE IF IsEpilogueSeq(c.seq) THEN <<"E", "P", "I", "L", "O", "G", "U", "E", ":", " ">> \o c.title
    ELSE <<"C", "H", "A", "P", "T", "E", "R", " ">> \o c.seq \o <<":", " ">> \o c.title

\* C7: the header line of a chapter is "PROLOGUE: " + title or "EPILOGUE: " +
\* title when its seq is the prologue or epilogue designator in any letter
\* case, and "CHAPTER " + seq + ": " + title otherwise.
C7_HeaderLine ==
    pc = "written" /\ res = Ok =>
        /\ Len(HeaderLines(out)) = Len(chapters)
        /\ \A k \in 1..Len(chapters) : HeaderLines(out)[k] = ClaimedHeader(chapters[k])

\* C8: n >= 1 chapters are written with exactly n - 1 delimiter lines of 64
\* "=" each; the first line is no delimiter; the line after the k-th delimiter
\* is the header of chapter k + 1, the line before it is empty, and the last
\* non-empty line before it is the last paragraph of chapter k.
C8_Delimiters ==
    pc = "written" /\ res = Ok =>
        LET ls == Lines(out)
            delims == {i \in 1..Len(ls) : ls[i] = CHAPTER_DELIM}
        IN  /\ Len(CHAPTER_DELIM) = 64
            /\ Len(chapters) >= 1
            /\ Cardinality(delims) = Len(chapters) - 1
            /\ 1 \notin delims
            /\ \A k \in 1..(Len(chapters) - 1) :
                  LET d == Kth(delims, k)
                      before == {i \in 1..(d - 1) : ls[i] # <<>>}
                      last == CHOOSE i \in before : \A j \in before : j <= i
                  IN  /\ d > 1 /\ d < Len(ls)
                      /\ ls[d - 1] = <<>>
                      /\ ls[d + 1] = __create_seq_desc(chapters[k + 1].seq) \o <<":", " ">>
                                        \o chapters[k + 1].title
                      /\ chapters[k].pars # <<>> =>
                            ls[last] = chapters[k].pars[Len(chapters[k].pars)]

C8_Witness ==
    /\ pc = "written"
    /\ res = Ok
    /\ Len(chapters) = 3
    /\ \A k \in 1..3 : chapters[k].pars # <<>>
    /\ Cardinality({i \in 1..Len(Lines(out)) : Lines(out)[i] = CHAPTER_DELIM}) = 2

-----------------------------------------------------------------------------
(* The Segmenter on its own: _parse_unstructured_chapters applied to a document *)

MaxBlocks == 4

TextChapter == <<"C", "h", "a", "p", "t", "e", "r">>
TextOne == <<"1">>
TextChapter2 == <<"C", "H", "A", "P", "T", "E", "R", " ", "2">>
TextIntro == <<"I", "n", "t", "r", "o">>
TextContent == <<"S", "o", "m", "e", " ", "c", "o", "n", "t", "e", "n", "t", ".">>
TextBookEnd == <<"T", "h", "e", " ", "E", "n", "d", " ", "o", "f", " ", "t", "h", "e", " ", "F", "i", "r", "s", "t", " ", "B", "o", "o", "k", " ", "o", "f", " ", "S", "o", "m", "e", "t", "h", "i", "n", "g">>
TextTrailing == <<"I", "g", "n", "o", "r", "e", "d", " ", "t", "r", "a", "i", "l", "i", "n", "g", " ", "c", "o", "n", "t", "e", "n", "t">>
TextEpilogue == <<" ", "E", "p", "i", "l", "o", "g", "u", "e", " ">>
TextPrologue == <<"P", "R", "O", "L", "O", "G", "U", "E">>

TextTheEnd == <<"T", "h", "e", " ", "E", "n", "d">>

Par(text) == Block("p", text, FALSE)

\* An element that holds nothing but an image
HeaderImage == Block("p", <<>>, TRUE)

SegmenterBlocks ==
    {Par(TextChapter), Par(TextOne), Par(TextChapter2), Par(TextIntro), Par(TextContent),
     Par(TextBookEnd), Par(TextEpilogue), Par(<<>>), HeaderImage}

BookEndExample ==
    <<Par(TextChapter), Par(TextOne), Par(TextIntro), Par(TextContent),
      Par(TextBookEnd), Par(TextTrailing)>>

TextOfTheBook == <<"o", "f", " ", "t", "h", "e", " ", "F", "i", "r", "s", "t", " ", "B", "o", "o", "k", " ", "o", "f", " ", "S", "o", "m", "e", "t", "h", "i", "n", "g">>

\* The end of the book spread over two elements
TwoElementEndExample ==
    <<Par(TextChapter2), Par(TextIntro), Par(TextContent), Par(TextTheEnd), Par(<<>>),
      Par(TextOfTheBook), Par(TextTrailing)>>

\* The second half of the end of the book after an ordinary paragraph
SecondHalfExample ==
    <<Par(TextChapter2), Par(TextIntro), Par(TextContent), Par(TextOfTheBook), Par(TextTrailing)>>

\* A header without a numeral and with a blank element after it, behind
\* chapter 2
IncrementExample ==
    <<Par(TextChapter2), Par(TextIntro), Par(TextContent),
      Par(TextChapter), Par(<<>>), Par(TextIntro), Par(TextContent)>>

\* The same behind a chapter whose number stands in an element of its own
WordIncrementExample ==
    <<Par(TextChapter), Par(<<"2">>), Par(TextIntro), Par(TextContent),
      Par(TextChapter), Par(<<>>), Par(TextIntro), Par(TextContent)>>

\* A prologue in capitals, with its title and a paragraph
PrologueExample == <<Par(TextPrologue), Par(TextIntro), Par(TextContent)>>

\* A header without a numeral and with a blank element after it, behind the
\* prologue
PrologueIncrementExample == <<Par(TextPrologue), Par(TextIntro), Par(TextChapter), Par(<<>>)>>

\* The prologue with two images before its title
TwoImagesExample ==
    <<Par(TextPrologue), HeaderImage, HeaderImage, Par(TextIntro), Par(TextContent)>>

SegmenterExamples ==
    {BookEndExample, TwoElementEndExample, SecondHalfExample, IncrementExample,
     WordIncrementExample, PrologueExample, PrologueIncrementExample, TwoImagesExample}

TextToc == <<"T", "a", "b", "l", "e", " ", "o", "f", " ", "C", "o", "n", "t", "e", "n", "t", "s">>
TextStart == <<"S", "t", "a", "r", "t">>
TextStartSpaced == <<" ">> \o TextStart \o <<" ">>

\* What may stand behind a table-of-contents header
TocBlocks == {Par(<<>>), Par(TextStart), Par(TextStartSpaced), Par(TextContent)}

\* The documents that open with a table-of-contents header
TocDocuments == {<<Par(TextToc)>> \o tail : tail \in SeqsUpTo(TocBlocks, MaxBlocks - 1)}

InitSegment ==
    /\ pc = "segment"
    /\ docs \in {<<d>> : d \in SeqsUpTo(SegmenterBlocks, MaxBlocks) \cup SegmenterExamples
                                  \cup TocDocuments}
    /\ file_data = <<>>
    /\ chapters = <<>>
    /\ res = Ok
    /\ out = <<>>
    /\ books = <<>>
    /\ log = <<>>

\* tuple(_parse_unstructured_chapters(soup)): the outcome is kept with the
\* record of how the elements were used.
ParseUnstructuredChapters ==
    /\ pc = "segment"
    /\ res' = _parse_unstructured_chapters(docs[1])
    /\ chapters' = res'.chapters
    /\ pc' = "segmented"
    /\ UNCHANGED <<docs, file_data, out, books, log>>

\* tuple(self.__parse_pars(pars)) of the reader of the HTML entry point, on
\* the same document
ParsePars ==
    /\ pc = "segment"
    /\ res' = HTMLChapterReader__parse_pars(docs[1])
    /\ chapters' = res'.chapters
    /\ pc' = "pars_parsed"
    /\ UNCHANGED <<docs, file_data, out, books, log>>

NextSegment == ParseUnstructuredChapters \/ ParsePars

SpecSegment == InitSegment /\ [][NextSegment]_vars

\* The normalized texts of the elements at the positions of at that lie
\* strictly between from and to.
TextsBetween(pars, at, from, to) ==
    LET picked == SelectSeq(at, LAMBDA b : from < b /\ b < to)
    IN  [k \in 1..Len(picked) |-> normalize_spacing(pars[picked[k]].text)]

\* The number of chapters returned for what stands before the first header.
LeadingChapters(r) ==
    IF \E k \in 1..Len(r.parblocks) : r.heads = <<>> \/ r.parblocks[k] < r.heads[1]
    THEN 1 ELSE 0

\* C9: when an element is taken as the end of the book, every paragraph and
\* every chapter of the result comes from an element before it, the chapters
\* are those started before it (and the one of the text before the first
\* header), and the last chapter holds the paragraphs gathered between its
\* header and the end of the book; the six blocks of the example give the
\* one chapter ("1", "Intro", ["Some content."]).
C9_BookEndTruncation ==
    pc = "segmented" =>
        LET pars == find_all(docs[1], UnstructuredTags)
            lasthead == IF res.heads = <<>> THEN 0 ELSE res.heads[Len(res.heads)]
        IN  /\ res.err = Ok /\ res.stop # 0 =>
                  /\ \A k \in 1..Len(res.parblocks) : res.parblocks[k] < res.stop
                  /\ \A k \in 1..Len(res.heads) : res.heads[k] < res.stop
                  /\ \A k \in 1..Len(res.seen) : res.seen[k] <= res.stop
                  /\ Len(chapters) = LeadingChapters(res) + Len(res.heads)
                  /\ Flatten([k \in 1..Len(chapters) |-> chapters[k].pars])
                        = TextsBetween(pars, res.parblocks, 0, res.stop)
                  /\ chapters # <<>> =>
                        chapters[Len(chapters)].pars
                            = TextsBetween(pars, res.parblocks, lasthead, res.stop)
            /\ docs[1] = BookEndExample =>
                  /\ res.err = Ok
                  /\ res.stop = 5
                  /\ chapters = <<Chapter(TextOne, TextIntro, <<TextContent>>)>>

C9_Witness ==
    /\ pc = "segmented"
    /\ docs[1] = BookEndExample
    /\ res.stop = 5
    /\ Len(chapters) = 1
    /\ chapters[1].pars = <<TextContent>>

\* C10: every element the loop classifies whose stripped text is "prologue"
\* or "epilogue" in any letter case starts a chapter: what was gathered before
\* it stays with the chapters before, the seq of the new chapter is the
\* lowercased token, its title the normalized text of the next element and
\* its paragraphs those gathered up to the next header; the ordering key of
\* an epilogue is greater, that of a prologue smaller, than the key of every
\* numeric seq.
C10_NonNumericToken ==
    pc = "segmented" /\ res.err = Ok =>
        LET pars == find_all(docs[1], UnstructuredTags)
            token(i) == Lower(Strip(pars[i].text))
            numerics == {chapters[k].seq : k \in {j \in 1..Len(chapters) : IsDigits(chapters[j].seq)}}
                          \cup {Seq1, Seq2, Seq10}
        IN  /\ \A n \in 1..Len(res.seen) :
                  token(res.seen[n]) \in NON_NUMERIC_CHAPTER_SEQS =>
                      \E k \in 1..Len(res.heads) :
                          LET i == res.heads[k]
                              c == chapters[Len(chapters) - Len(res.heads) + k]
                              next == IF k < Len(res.heads) THEN res.heads[k + 1]
                                      ELSE Len(pars) + 1
                          IN  /\ i = res.seen[n]
                              /\ Len(chapters) >= Len(res.heads)
                              /\ c.seq = token(i)
                              /\ i < Len(pars)
                              /\ normalize_spacing(pars[i + 1].text) # <<>> =>
                                    c.title = normalize_spacing(pars[i + 1].text)
                              /\ c.title # <<>>
                              /\ c.pars = TextsBetween(pars, res.parblocks, i, next)
                              /\ \A b \in 1..Len(res.parblocks) : res.parblocks[b] # i + 1
            /\ \A q \in numerics :
                  /\ KeyGreater(chapter_seq_sort_key(Epilogue), chapter_seq_sort_key(q))
                  /\ KeyGreater(chapter_seq_sort_key(q), chapter_seq_sort_key(Prologue))
            /\ \A k \in 1..Len(chapters), j \in 1..Len(chapters) :
                  IsDigits(chapters[j].seq) =>
                      /\ chapters[k].seq = Epilogue =>
                            KeyGreater(chapter_seq_sort_key(chapters[k].seq),
                                       chapter_seq_sort_key(chapters[j].seq))
                      /\ chapters[k].seq = Prologue =>
                            KeyGreater(chapter_seq_sort_key(chapters[j].seq),
                                       chapter_seq_sort_key(chapters[k].seq))

C10_Witness ==
    /\ pc = "segmented"
    /\ res.err = Ok
    /\ docs[1] = <<Par(TextChapter2), Par(TextIntro), Par(TextEpilogue), Par(TextIntro)>>
    /\ chapters = <<Chapter(<<"2">>, TextIntro, <<>>), Chapter(Epilogue, TextIntro, <<>>)>>


\* The end of the book as C17 states it: the text matches the pattern of the
\* single paragraph, or it matches "The End" and the next non-blank element
\* matches "of the ... Book of".
ClaimedBookEnd(par_text, following_ctx) ==
    \/ SINGLE_BOOK_END_PATTERN(par_text)
    \/ /\ MULTI_BOOK_END_PAR_PATTERNS(1, par_text)
       /\ following_ctx # <<>>
       /\ MULTI_BOOK_END_PAR_PATTERNS(2, Strip(following_ctx[1].text))

\* C17: among the elements that reach the test for the end of the book, one
\* is taken as the end exactly when its text matches the pattern of the
\* single paragraph or both patterns of the pair match in sequence, the
\* element itself "The End" and the next non-blank element "of the ... Book
\* of": the element the Segmenter stops at is such an element, and no element
\* kept as a paragraph is; an element that does not match "The End" is never
\* the end on account of the element after it, nor is one that matches only
\* "The End" and has no non-blank element after it.
C17_BookEndMarker ==
    pc = "segmented" /\ res.err = Ok =>
        LET pars == find_all(docs[1], UnstructuredTags)
        IN  /\ res.stop # 0 =>
                  ClaimedBookEnd(Strip(pars[res.stop].text), FollowingCtx(pars, res.stop))
            /\ \A k \in 1..Len(res.parblocks) :
                  ~ClaimedBookEnd(Strip(pars[res.parblocks[k]].text),
                                  FollowingCtx(pars, res.parblocks[k]))


\* The elements the Segmenter that ran was given
SegmentedPars ==
    IF pc = "pars_parsed" THEN find_all(docs[1], ParsTags) ELSE find_all(docs[1], UnstructuredTags)

\* The text is a chapter header for the Segmenter that ran
IsChapterHeader(text) ==
    IF pc = "pars_parsed" THEN HTMLChapterReader__is_chapter_header(text)
    ELSE ChapterHeaderMatches(text)

\* The numeral the header pattern captured in the text, None if it captured
\* none; the reader of the HTML entry point knows no numeral in the header
CapturedNumeral(text) == IF pc = "pars_parsed" THEN None ELSE ChapterHeaderGroup(text)

\* The title read from the element at the position on: the normalized text of
\* the first element that is not an empty element with an image
TitleFrom(pars, from) ==
    LET candidates == {m \in from..Len(pars) :
                          ~(normalize_spacing(pars[m].text) = <<>> /\ pars[m].img)}
    IN  IF candidates = {} THEN <<>> ELSE normalize_spacing(pars[Least(candidates)].text)

\* C21: on every successful run of the unstructured Segmenter (of either
\* reader), every element it classifies that is a chapter header starts a
\* chapter; when the header pattern captured a numeral the seq is that
\* numeral and the title is read from the very next element; otherwise the
\* next element is taken for the seq: its stripped text when that is not
\* empty, and else the decimal string of n + 1, n being the number that the
\* seq of the chapter sealed at the header stands for; the title is then read
\* from the element after that one.  The chapter sealed at the header holds
\* the paragraphs gathered before the header and the new chapter those
\* gathered after it.
C21_HeaderSeq ==
    pc \in {"segmented", "pars_parsed"} /\ res.err = Ok =>
        LET pars == SegmentedPars
            lead == Len(chapters) - Len(res.heads)
            headAt(k) == IF k = 0 THEN 0
                         ELSE IF k > Len(res.heads) THEN (IF res.stop # 0 THEN res.stop ELSE Len(pars) + 1)
                         ELSE res.heads[k]
        IN  /\ lead \in {0, 1}
            /\ \A n \in 1..Len(res.seen) :
                  IsChapterHeader(Strip(pars[res.seen[n]].text)) =>
                      \E k \in 1..Len(res.heads) : res.heads[k] = res.seen[n]
            /\ \A k \in 1..Len(res.heads) :
                  LET i == res.heads[k]
                      text == Strip(pars[i].text)
                      c == chapters[lead + k]
                  IN  IsChapterHeader(text) =>
                          /\ lead + k > 1 =>
                                chapters[lead + k - 1].pars
                                    = TextsBetween(pars, res.parblocks, headAt(k - 1), i)
                          /\ c.pars = TextsBetween(pars, res.parblocks, i, headAt(k + 1))
                          /\ IF CapturedNumeral(text) # None
                             THEN /\ c.seq = CapturedNumeral(text)
                                  /\ c.title = TitleFrom(pars, i + 1)
                             ELSE /\ i < Len(pars)
                                  /\ c.title = TitleFrom(pars, i + 2)
                                  /\ IF Strip(pars[i + 1].text) # <<>>
                                     THEN c.seq = Strip(pars[i + 1].text)
                                     ELSE /\ k > 1
                                          /\ PyInt(chapters[lead + k - 1].seq).ok
                                          /\ c.seq = IntToStr(PyInt(chapters[lead + k - 1].seq).value + 1)

C21_Witness ==
    /\ pc = "segmented"
    /\ res.err = Ok
    /\ docs[1] = IncrementExample
    /\ chapters = <<Chapter(Seq2, TextIntro, <<TextContent>>),
                    Chapter(<<"3">>, TextIntro, <<TextContent>>)>>


\* The Segmenter that ran, on the first elements of the document only
SegmentedPrefix(pars, n) ==
    IF pc = "pars_parsed" THEN ParsFrom(SubSeq(pars, 1, n), 1, SegmentStart)
    ELSE UnstructuredFrom(SubSeq(pars, 1, n), 1, SegmentStart)

\* The seq of the accumulator after a successful run: that of the last
\* chapter started, None when none was started
SealedSeq(r) == IF r.heads = <<>> THEN None ELSE r.chapters[Len(r.chapters)].seq

\* The loop reaches the element at the position i with an accumulator that
\* has no seq or one without any digit, as prologue and epilogue; the element
\* is a chapter header without a numeral and the element after it is blank.
HeaderBehindNonNumeric(pars, i) ==
    /\ i < Len(pars)
    /\ IsChapterHeader(Strip(pars[i].text))
    /\ CapturedNumeral(Strip(pars[i].text)) = None
    /\ Strip(pars[i + 1].text) = <<>>
    /\ LET before == SegmentedPrefix(pars, i - 1)
       IN  /\ before.err = Ok
           /\ before.stop = 0
           /\ \/ SealedSeq(before) = None
              \/ \A c \in 1..Len(SealedSeq(before)) : ~IsDigit(SealedSeq(before)[c])

\* C22: when the loop comes to a chapter header without a numeral, the
\* element after it is blank and the chapter being sealed has a seq that
\* stands for no number (prologue, epilogue, or none at all because no header
\* was seen yet), the segmentation of the document ends with an error
\* (TypeError for no seq, ValueError otherwise): no seq is made up and no
\* chapter list is returned.
C22_NoIncrementFromNonNumeric ==
    pc \in {"segmented", "pars_parsed"} =>
        LET pars == SegmentedPars
        IN  (\E i \in 1..Len(pars) : HeaderBehindNonNumeric(pars, i)) =>
                /\ res.err.kind \in {"TypeError", "ValueError"}
                /\ chapters = <<>>

C22_Witness ==
    /\ pc = "segmented"
    /\ docs[1] = <<Par(TextPrologue), Par(TextIntro), Par(TextChapter), Par(<<>>)>>
    /\ res.err.kind = "ValueError"
    /\ chapters = <<>>


\* The loop reaches the element at the position i, which starts a chapter
\* whose title is read from the position given on: a prologue or epilogue
\* token or a header with its numeral (the next element), or a header
\* without numeral before an element that is not blank (the one after that);
\* 0 for every other element.
TitleStart(pars, i) ==
    LET text == Strip(pars[i].text)
        before == SegmentedPrefix(pars, i - 1)
    IN  IF text = <<>> \/ before.err # Ok \/ before.stop # 0 THEN 0
        ELSE IF IsChapterHeader(text)
        THEN IF CapturedNumeral(text) # None THEN i + 1
             ELSE IF i < Len(pars) /\ Strip(pars[i + 1].text) # <<>> THEN i + 2
             ELSE 0
        ELSE IF __is_non_numeric_chapter_seq(text) THEN i + 1
        ELSE 0

\* The first element from the position on that is not an empty element with
\* an image; 0 if there is none
TitleElement(pars, from) ==
    LET candidates == {m \in from..Len(pars) :
                          ~(normalize_spacing(pars[m].text) = <<>> /\ pars[m].img)}
    IN  IF candidates = {} THEN 0 ELSE Least(candidates)

\* C23: the title of a chapter started at a header or at a prologue or
\* epilogue token is the normalized text of the next element, and while that
\* text is empty and the element holds an image the element after it is read
\* instead: when the element found so has a text, the chapter is started with
\* that text as its title; when the elements run out first, or the element
\* found is empty and holds no image, the segmentation ends with an error
\* and returns no chapters.  So every chapter started on a successful run has
\* a title that is not empty.
C23_TitleExtraction ==
    pc \in {"segmented", "pars_parsed"} =>
        LET pars == SegmentedPars
            lead == Len(chapters) - Len(res.heads)
        IN  /\ res.err = Ok =>
                  \A k \in 1..Len(res.heads) : Truthy(chapters[lead + k].title)
            /\ \A i \in 1..Len(pars) :
                  TitleStart(pars, i) # 0 =>
                      LET m == TitleElement(pars, TitleStart(pars, i))
                      IN  IF m = 0 \/ normalize_spacing(pars[IF m = 0 THEN 1 ELSE m].text) = <<>>
                          THEN res.err # Ok /\ chapters = <<>>
                          ELSE LET started == SegmentedPrefix(pars, m)
                               IN  /\ started.err = Ok
                                   /\ started.chapters[Len(started.chapters)].title
                                          = normalize_spacing(pars[m].text)
                                   /\ res.err = Ok =>
                                         \E k \in 1..Len(res.heads) :
                                             /\ res.heads[k] = i
                                             /\ chapters[lead + k].title
                                                    = normalize_spacing(pars[m].text)

\* The elements behind a table-of-contents header that opens the document,
\* as the handling of the header is described: without the element after the
\* header when the normalized text of that element is in the title blacklist
BehindTocHeader(pars) ==
    IF Len(pars) >= 2 /\ Lower(normalize_spacing(pars[2].text)) \in TITLE_BLACKLIST
    THEN SubSeq(pars, 3, Len(pars))
    ELSE SubSeq(pars, 2, Len(pars))

\* C24: in the stricter Segmenter a table-of-contents header is discarded,
\* and the element after it is discarded exactly when the normalized text of
\* that same element is in the title blacklist; every other element behind
\* the header is classified as usual, and a header that is the last element
\* is simply discarded.  So a document that opens with the header is
\* segmented as the elements behind it would be, less the discarded one.
C24_TocHandling ==
    (/\ pc = "segmented"
     /\ Len(SegmentedPars) >= 1
     /\ __is_toc_header(Strip(SegmentedPars[1].text))) =>
        LET behind == UnstructuredFrom(BehindTocHeader(SegmentedPars), 1, SegmentStart)
        IN  /\ res.err = behind.err
            /\ chapters = behind.chapters

\* The element is one the stricter Segmenter takes for an ordinary
\* paragraph when its loop classifies it: its text is not blank, it is no
\* chapter header, no prologue or epilogue token and no table-of-contents
\* header, and its normalized text is not empty
OrdinaryParagraph(par) ==
    /\ Strip(par.text) # <<>>
    /\ ~ChapterHeaderMatches(Strip(par.text))
    /\ ~__is_non_numeric_chapter_seq(Strip(par.text))
    /\ ~__is_toc_header(Strip(par.text))
    /\ normalize_spacing(Strip(par.text)) # <<>>

Increasing(s) == \A k \in 1..Len(s) - 1 : s[k] < s[k + 1]

Positions(s) == {s[k] : k \in 1..Len(s)}

\* C26: on every successful run of the stricter Segmenter the paragraphs of
\* the returned chapters, one chapter after the other, are the normalized
\* texts of the elements that gave paragraphs, in the order of the document;
\* these are exactly the ordinary paragraphs among the elements the loop
\* classified before the end of the book.  The loop classifies no element
\* twice, and an element taken as a header, as the seq or the title of a
\* header or discarded behind a table-of-contents header is not classified
\* by the loop and gives no paragraph.
C26_ParagraphConservation ==
    (pc = "segmented" /\ res.err = Ok) =>
        LET pars == SegmentedPars
            end == IF res.stop = 0 THEN Len(pars) + 1 ELSE res.stop
        IN  /\ Flatten([k \in 1..Len(chapters) |-> chapters[k].pars])
                  = [k \in 1..Len(res.parblocks) |->
                        normalize_spacing(pars[res.parblocks[k]].text)]
            /\ Increasing(res.seen)
            /\ Increasing(res.parblocks)
            /\ Positions(res.seen) \subseteq 1..Len(pars)
            /\ Positions(res.parblocks)
                  = {i \in Positions(res.seen) : i < end /\ OrdinaryParagraph(pars[i])}
            /\ Positions(res.heads) \subseteq Positions(res.seen) \ Positions(res.parblocks)
            /\ \A k \in 1..Len(res.seen) :
                  LET i == res.seen[k]
                      next == IF k < Len(res.seen) THEN res.seen[k + 1] ELSE Len(pars) + 1
                  IN  \* what stands between two classified elements is
                      \* blank or was taken with the first of the two
                      \A j \in i + 1..next - 1 :
                          \/ Strip(pars[j].text) = <<>>
                          \/ i \in Positions(res.heads)
                          \/ __is_toc_header(Strip(pars[i].text))
                          \/ i = res.stop

C26_Witness ==
    /\ pc = "segmented"
    /\ docs[1] = WordIncrementExample
    /\ res.err = Ok
    /\ res.heads = <<1, 5>>
    /\ res.parblocks = <<4, 8>>
    /\ chapters = <<Chapter(<<"2">>, TextIntro, <<TextContent>>),
                    Chapter(<<"3">>, TextIntro, <<TextContent>>)>>

-----------------------------------------------------------------------------
(* The runs of the two entry points *)

TextChapter1 == <<"C", "h", "a", "p", "t", "e", "r", " ", "1">>
TextCover == <<"C", "o", "v", "e", "r">>
TitleBookA == <<"B", "o", "o", "k", " ", "A">>
TitleBookB == <<"B", "o", "o", "k", " ", " ", "B">>

DocFull1 == <<Par(TextChapter1), Par(TextIntro), Par(TextContent)>>
DocFull2 == <<Par(TextChapter2), Par(TextIntro), Par(TextContent)>>
DocNoPars2 == <<Par(TextChapter2), Par(TextIntro)>>
DocHeaderless == <<Par(TextContent)>>
DocBareHeader == <<Par(TextChapter)>>

HtmlDocs == {DocFull1, DocFull2, DocNoPars2, DocHeaderless, DocBareHeader, <<>>}

\* The HTML files found, in the order of the walk of the directories.  A
\* path is found again when the directories given overlap: it is then the
\* same file, with the same title and elements.
HtmlInfiles ==
    {fs \in SeqsUpTo({HtmlFile(n, t, d) : n \in SourceNames, t \in {TitleBookA, TitleBookB},
                                           d \in HtmlDocs}, MaxInfiles) :
        /\ fs # <<>>
        /\ \A i \in 1..Len(fs), j \in 1..Len(fs) : fs[i].name = fs[j].name => fs[i] = fs[j]}

\* A chapter as the reader of the HTML entry point knows it: the header, the
\* number in an element of its own, the title and a paragraph
DocWord1 == <<Par(TextChapter), Par(TextOne), Par(TextIntro), Par(TextContent)>>
DocWord2 == <<Par(TextChapter), Par(<<"2">>), Par(TextIntro), Par(TextContent)>>
DocWordNoPars == <<Par(TextChapter), Par(<<"2">>), Par(TextIntro)>>

ParsDocs == {DocWord1, DocWord2, DocWordNoPars, DocHeaderless, DocBareHeader, <<>>}

ParsInfiles ==
    {fs \in SeqsUpTo({HtmlFile(n, t, d) : n \in SourceNames, t \in {TitleBookA, TitleBookB},
                                           d \in ParsDocs}, MaxInfiles) :
        /\ fs # <<>>
        /\ \A i \in 1..Len(fs), j \in 1..Len(fs) : fs[i].name = fs[j].name => fs[i] = fs[j]}

EpubItems ==
    {<<DocFull1>>, <<DocNoPars2>>, <<DocFull2, DocFull1>>, <<DocFull1, DocHeaderless>>, <<<<>>>>}

EpubNavs ==
    {<<NavPoint(TextChapter1, 1)>>,
     <<NavPoint(TextChapter1, 1), NavPoint(TextChapter2, 2)>>,
     <<NavPoint(TextCover, 1)>>}

\* The EPUB files found, each with one navigation element.
EpubInfiles ==
    {fs \in SeqsUpTo({Epub(t, <<n>>, i) : t \in {TitleBookA, TitleBookB}, n \in EpubNavs,
                                          i \in EpubItems}, MaxInfiles) : fs # <<>>}

Init ==
    /\ \/ pc = "html_read" /\ docs \in HtmlInfiles
       \/ pc = "pars_read" /\ docs \in ParsInfiles
       \/ pc = "epub_read" /\ docs \in EpubInfiles
    /\ file_data = <<>>
    /\ chapters = <<>>
    /\ res = Ok
    /\ out = <<>>
    /\ books = <<>>
    /\ log = <<>>

Next ==
    \/ HtmlReadFile
    \/ HtmlMergeBook
    \/ HtmlWriteBook
    \/ ParsReadFile
    \/ ParsMergeBook
    \/ EpubReadBook
    \/ EpubWriteBook

Spec == Init /\ [][Next]_vars

\* The list of the k-th call in the log was merged and then accepted by the
\* Validator, for the same book, before that call.
ValidatedBefore(k) ==
    \E i \in 1..(k - 1), j \in 1..(k - 1) :
        /\ i < j
        /\ log[i] = Call("merge", log[k].title, log[k].chapters, TRUE)
        /\ log[j] = Call("validate", log[k].title, log[k].chapters, TRUE)

\* C3: on the HTML path and on the EPUB path every list handed to
\* write_chapters has been through the Merger and then through the Validator,
\* which accepted it; no list reaches write_chapters unvalidated.
C3_WriteAfterValidate ==
    \A k \in 1..Len(log) : log[k].op = "write" => ValidatedBefore(k)

\* C25: write_chapters is never called with an empty chapter list, on the
\* HTML path and on the EPUB path: every list a book is written from holds
\* at least one chapter, so no write ends early for want of a chapter.
C25_NoEmptyWrite ==
    \A k \in 1..Len(log) : log[k].op = "write" => log[k].chapters # <<>>

\* Where a run of the HTML entry point stands before it ends
HtmlPath == {"html_read", "html_merge", "html_write", "pars_read", "pars_merge"}

WriteCalls(calls) == {k \in 1..Len(calls) : calls[k].op = "write"}

\* A step of the HTML path: when it leaves a write call in the log, no file
\* is left to read and no book to merge, and every list written was merged
\* and accepted by the Validator before; when it ends the run with an
\* error, the log holds no write call.
NoOutputBeforeAllValidated ==
    pc \in HtmlPath =>
        /\ WriteCalls(log') # {} =>
              /\ docs = <<>>
              /\ file_data = <<>>
              /\ \A k \in WriteCalls(log') : ValidatedBefore(k)'
        /\ pc' = "failed" => WriteCalls(log') = {}

\* C27: on the HTML path no output file is opened for any book before every
\* file has been read and every book merged and validated; a run that a
\* fatal condition ends has therefore opened no output file, and every list
\* a file is written from was merged and accepted by the Validator before.
C27_NoOutputBeforeAllValidated == [][NoOutputBeforeAllValidated]_vars

\* The navigation of the book resolves to no description at all: every one
\* of its points is filtered out.
NoDescriptions(book) == AllDescs(book.navs, 1, <<>>) = Resolved(Ok, <<>>)

\* C15: when the navigation of the EPUB file that is read resolves to no
\* description, the reader raises the error of the empty navigation
\* (ValueError, raised before any document of the book is parsed) and the
\* run ends there: no chapter list is returned for the book, so none is
\* kept, merged or handed to write_chapters, and the output is left as it was.
C15_EmptyNavigation ==
    [][(pc = "epub_read" /\ NoDescriptions(Head(docs))) =>
          /\ pc' = "failed"
          /\ res' = Result("ValueError", 0, "")
          /\ UNCHANGED <<docs, chapters, books, log, out>>]_vars

\* The second book of a run has a navigation of blacklisted points only: the
\* first book was written, the second ends the run.
C15_Witness ==
    /\ pc = "failed"
    /\ res = Result("ValueError", 0, "")
    /\ Len(docs) = 1
    /\ docs[1].navs = <<<<NavPoint(TextCover, 1)>>>>
    /\ docs[1].items = <<DocFull1>>
    /\ Len(log) = 2
    /\ log[2].op = "write" /\ log[2].ok
    /\ out # <<>>

-----------------------------------------------------------------------------
(* The Segmenter and the Validator on one document: _parse_chapters applied *)
(* to the elements of a document, and _validate_chapters to what it returns *)

MaxElements == 4

TextChapter10 == <<"C", "H", "A", "P", "T", "E", "R", " ", "1", "0">>
TextMore == <<"M", "o", "r", "e", ".">>

H2(text) == Block("h2", text, FALSE)
H3(text) == Block("h3", text, FALSE)

\* A heading that holds nothing but an image
HeadingImage == Block("h2", <<>>, TRUE)

\* A heading "Chapter" that differs from H2(TextChapter) by an attribute
H2ChapterWithId == Marked(H2(TextChapter), "id=\"c1\"")

ParserBlocks ==
    {H2(TextChapter2), H2(TextChapter10), H2(TextChapter), H2ChapterWithId, HeadingImage,
     H3(TextIntro), H3(<<>>), Par(TextContent), Par(TextMore)}

\* Headers "CHAPTER 2" then "CHAPTER 10", each with a title and a paragraph
NaturalOrderExample ==
    <<Par(TextChapter2), Par(TextIntro), Par(TextContent),
      Par(TextChapter10), Par(TextIntro), Par(TextContent)>>

\* The same chapters with "CHAPTER 10" first
ReverseOrderExample ==
    <<Par(TextChapter10), Par(TextIntro), Par(TextContent),
      Par(TextChapter2), Par(TextIntro), Par(TextContent)>>

\* Two headings, each with its subheading and its paragraph
TwoHeadingsExample ==
    <<H2(TextChapter2), H3(TextIntro), Par(TextContent),
      H2(TextChapter10), H3(TextIntro), Par(TextMore)>>

\* Two headings with the same text and different attributes, each with its
\* subheading and its paragraph
SameTextHeadingsExample ==
    <<H2ChapterWithId, H3(TextIntro), Par(TextContent),
      H2(TextChapter), H3(TextContent), Par(TextMore)>>

ParserExamples ==
    {NaturalOrderExample, ReverseOrderExample, TwoHeadingsExample, SameTextHeadingsExample}

InitParse ==
    /\ pc = "parse"
    /\ \/ \E n \in 0..MaxElements : \E d \in [1..n -> ParserBlocks] : docs = <<d>>
       \/ \E d \in ParserExamples : docs = <<d>>
    /\ file_data = <<>>
    /\ chapters = <<>>
    /\ res = Ok
    /\ out = <<>>
    /\ books = <<>>
    /\ log = <<>>

\* What the caller of _parse_chapters holds after the call
KeepParsed(parsed) ==
    /\ res' = parsed.err
    /\ chapters' = parsed.chapters
    /\ pc' = IF parsed.err = Ok THEN "parsed" ELSE "failed"
    /\ UNCHANGED <<docs, file_data, out, books, log>>

ParseChapters ==
    /\ pc = "parse"
    /\ KeepParsed(_parse_chapters(docs[1]))

ValidateParsed ==
    /\ pc = "parsed"
    /\ res' = _validate_chapters(chapters)
    /\ pc' = "validated"
    /\ UNCHANGED <<docs, file_data, chapters, out, books, log>>

NextParse == ParseChapters \/ ValidateParsed

SpecParse == InitParse /\ [][NextParse]_vars

\* The positions whose chapter has a numeral of smaller magnitude than the
\* chapter before it.
DescendingAt(chs) ==
    {i \in 2..Len(chs) : DigitsToInt(chs[i - 1].seq) > DigitsToInt(chs[i].seq)}

\* C11: the ordering key of "2" is smaller than that of "10"; the document
\* with the headers "CHAPTER 2" then "CHAPTER 10" is segmented into the seqs
\* "2" then "10" and that list is accepted, the document with "CHAPTER 10"
\* first is segmented into "10" then "2" and rejected as out of order at the
\* second chapter; and every list of complete chapters with numeral seqs is
\* accepted exactly when the magnitudes of the numerals never descend, and
\* is otherwise rejected as out of order at the first descent.
C11_NaturalNumeralOrder ==
    /\ KeyGreater(chapter_seq_sort_key(Seq10), chapter_seq_sort_key(Seq2))
    /\ ~KeyGreater(chapter_seq_sort_key(Seq2), chapter_seq_sort_key(Seq10))
    /\ pc \in {"parsed", "validated"} /\ docs[1] = NaturalOrderExample =>
          SeqsOf(chapters) = <<Seq2, Seq10>>
    /\ pc \in {"parsed", "validated"} /\ docs[1] = ReverseOrderExample =>
          SeqsOf(chapters) = <<Seq10, Seq2>>
    /\ pc = "failed" => docs[1] \notin ParserExamples
    /\ pc = "validated" =>
          /\ docs[1] = NaturalOrderExample => res = Ok
          /\ docs[1] = ReverseOrderExample => res = Result("OutOfOrder", 2, "")
          /\ (\A k \in 1..Len(chapters) : Complete(chapters[k]) /\ IsDigits(chapters[k].seq)) =>
                IF DescendingAt(chapters) = {} THEN res = Ok
                ELSE res = Result("OutOfOrder", Least(DescendingAt(chapters)), "")

C11_Witness ==
    /\ pc = "validated"
    /\ docs[1] = NaturalOrderExample
    /\ SeqsOf(chapters) = <<Seq2, Seq10>>
    /\ res = Ok

-----------------------------------------------------------------------------
(* The Navigation Resolver on its own: the chapter descriptions of a book's *)
(* navigation, ordered as EPUBChapterReader.__read_file orders them         *)

MaxNavPoints == 3

LabelChapter10 == <<"C", "h", "a", "p", "t", "e", "r", " ", " ", "1", "0", ":", " ", " ", "T", "e", "n">>
LabelPrologue == <<"P", "r", "o", "l", "o", "g", "u", "e", ":", " ", "B", "e", "f", "o", "r", "e">>
LabelTitle == <<"T", "i", "t", "l", "e">>
LabelPage == <<"P", "a", "g", "e">>
LabelAbout == <<"A", "b", "o", "u", "t">>
LabelTheAuthor == <<"t", "h", "e", " ", "A", "u", "t", "h", "o", "r">>

NavLabels ==
    {TextChapter2, LabelChapter10, TextChapter, LabelPrologue,
     LabelTitle, LabelPage, LabelAbout, LabelTheAuthor}

\* The hrefs of the navigation points: two documents, the first of them the
\* one the first navigation point points at
NavSrcs == {1, 2}

NavPoints == {NavPoint(l, s) : l \in NavLabels, s \in NavSrcs}

\* A book with one navigation element of up to MaxNavPoints points, or with
\* two elements that share fewer points; the first point names document 1.
InitNav ==
    /\ pc = "resolve"
    /\ \E n \in 0..MaxNavPoints :
       \E nav_points \in {f \in [1..n -> NavPoints] : n > 0 => f[1].src = 1} :
          \/ docs = <<Epub(TitleBookA, <<nav_points>>, <<>>)>>
          \/ \E c \in 1..(n - 1) :
                /\ n < MaxNavPoints
                /\ docs = <<Epub(TitleBookA, <<SubSeq(nav_points, 1, c), SubSeq(nav_points, c + 1, n)>>,
                                 <<>>)>>
    /\ file_data = <<>>
    /\ chapters = <<>>
    /\ res = Ok
    /\ out = <<>>
    /\ books = <<>>
    /\ log = <<>>

\* What __read_file holds, or raises, once the navigation is resolved
KeepResolved(resolved) ==
    /\ res' = resolved
    /\ pc' = IF resolved.err = Ok THEN "resolved" ELSE "failed"
    /\ UNCHANGED <<docs, file_data, chapters, out, books, log>>

ResolveNavigation ==
    /\ pc = "resolve"
    /\ KeepResolved(OrderedChapterDescs(AllDescs(docs[1].navs, 1, <<>>)))

NextNav == ResolveNavigation

SpecNav == InitNav /\ [][NextNav]_vars

\* The labels of the navigation points that point at the source, in order.
LabelsAt(nav_points, src) ==
    LET at == SelectSeq(nav_points, LAMBDA nav : nav.src = src)
    IN  [k \in 1..Len(at) |-> at[k].label]

Blacklisted(label) == Lower(normalize_spacing(label)) \in TITLE_BLACKLIST

\* The labels among them that are not in the blacklist.
KeptLabels(labels) == SelectSeq(labels, LAMBDA l : ~Blacklisted(l))

\* The labels a description of the source is built from in the e-th
\* navigation element of the book.
GroupLabels(book, e, src) == KeptLabels(LabelsAt(book.navs[e], src))

\* The groups that give a description: the navigation element and the source
\* of points whose labels are not all blacklisted and whose joined label is
\* not blacklisted either.
DescribedGroups(book) ==
    {g \in (1..Len(book.navs)) \X NavSrcs :
        /\ GroupLabels(book, g[1], g[2]) # <<>>
        /\ ~Blacklisted(JoinBySpace(GroupLabels(book, g[1], g[2])))}

\* The description built from the labels of the group.
BuiltFrom(book, g) ==
    LET built == __parse_chapter_title(normalize_spacing(JoinBySpace(GroupLabels(book, g[1], g[2]))))
    IN  _ChapterDescription(built.seq, built.name, g[2])

SortedDescs(descs) ==
    \A k \in 1..(Len(descs) - 1) :
        ~KeyGreater(chapter_seq_sort_key(descs[k].seq), chapter_seq_sort_key(descs[k + 1].seq))

\* C13 as stated: the descriptions are sorted, none is built from a
\* blacklisted label, and for none is the joined label of all the navigation
\* points that point at its source in the blacklist.
C13_Original ==
    pc = "resolved" =>
        /\ SortedDescs(res.descs)
        /\ \A k \in 1..Len(res.descs) :
              \E g \in DescribedGroups(docs[1]) :
                  /\ res.descs[k] = BuiltFrom(docs[1], g)
                  /\ ~Blacklisted(JoinBySpace(LabelsAt(docs[1].navs[g[1]], g[2])))

\* C13 (amended): the descriptions returned for a book are sorted
\* non-decreasingly by the ordering key of their seq; there is one for every
\* source of a navigation element whose points are not all blacklisted and
\* whose joined label, that of the points that are not blacklisted, is not
\* in the blacklist, and no other; and each is built from those labels
\* alone, none from a blacklisted one.
C13_SortedAndFiltered ==
    pc = "resolved" =>
        LET groups == DescribedGroups(docs[1])
            built == [g \in groups |-> BuiltFrom(docs[1], g)]
        IN  /\ SortedDescs(res.descs)
            /\ Len(res.descs) = Cardinality(groups)
            /\ {res.descs[k] : k \in 1..Len(res.descs)} = {built[g] : g \in groups}
            /\ \A d \in {built[g] : g \in groups} :
                  Cardinality({k \in 1..Len(res.descs) : res.descs[k] = d})
                      = Cardinality({g \in groups : built[g] = d})

C13_Witness ==
    /\ pc = "resolved"
    /\ docs[1].navs = <<<<NavPoint(LabelTitle, 1), NavPoint(LabelChapter10, 1),
                          NavPoint(TextChapter2, 2)>>>>
    /\ res.descs = <<_ChapterDescription(Seq2, <<>>, 2),
                     _ChapterDescription(Seq10, <<"T", "e", "n">>, 1)>>

\* The seq C14 states for the first token of a label: one trailing colon
\* removed, and PROLOGUE or EPILOGUE for a token that begins with either word
\* in any letter case.
ClaimedSeq(token) ==
    LET bare == IF EndsWith(token, <<":">>) THEN SubSeq(token, 1, Len(token) - 1) ELSE token
    IN  IF StartsWith(Lower(bare), Prologue) THEN Upper(Prologue)
        ELSE IF StartsWith(Lower(bare), Epilogue) THEN Upper(Epilogue)
        ELSE bare

\* C14: the label of a description (the joined label of its source) is split
\* on whitespace and a first token "chapter", in any letter case, dropped;
\* the seq is the first remaining token with one trailing colon removed and
\* with a token that begins with "prologue" or "epilogue", in any letter
\* case, replaced by PROLOGUE or EPILOGUE; the title is the remaining tokens
\* joined by single spaces; and every label that is not in the blacklist
\* gives such a pair, the single word "Chapter" included: the parsing of a
\* label never fails.
C14_TitleParsing ==
    /\ pc = "failed" => res.err.kind # "IndexError"
    /\ pc = "resolved" =>
          \A k \in 1..Len(res.descs) :
              \E g \in DescribedGroups(docs[1]) :
                  LET label == normalize_spacing(JoinBySpace(GroupLabels(docs[1], g[1], g[2])))
                      split == SplitWhitespace(label)
                      tokens == IF Lower(split[1]) = Lower(TextChapter) THEN Tail(split) ELSE split
                  IN  /\ tokens # <<>>
                      /\ res.descs[k].src = g[2]
                      /\ res.descs[k].seq = ClaimedSeq(tokens[1])
                      /\ res.descs[k].name = JoinBySpace(Tail(tokens))


\* C16: _parse_chapters, on the structured path and on the unstructured one,
\* never emits an empty chapter: every chapter of its result has a seq, a
\* title or at least one paragraph, so no chapter with all three absent or
\* empty is handed to the Merger or the Validator.
C16_NoEmptyChapter ==
    pc \in {"parsed", "validated"} =>
        \A k \in 1..Len(chapters) : ChapterBool(chapters[k])


\* The headings of the document have each a subheading of their own key: the
\* case where _parse_structured_chapters builds one chapter for each heading.
OneToOne(doc) ==
    /\ PositionsFrom(doc, "h2", 1) # <<>>
    /\ Len(HeaderTitles(doc, PositionsFrom(doc, "h2", 1), 1, <<>>)) = Len(PositionsFrom(doc, "h2", 1))

\* The position of the next heading after the position at, or the position
\* after the last element
NextHeading(doc, at) ==
    IF find_next(doc, at, "h2") = 0 THEN Len(doc) + 1 ELSE find_next(doc, at, "h2")

\* The paragraphs C18 gives the chapter with the subheading at the position:
\* the normalized non-empty texts of the p elements between the subheading
\* and the next heading, cut at the end of the book.
ParsUpToNextHeading(doc, chapter_title) ==
    StructuredPars(find_all(SubSeq(doc, chapter_title + 1, NextHeading(doc, chapter_title) - 1), {"p"}),
                   1, <<>>)

\* C18: on the structured path the paragraphs of the chapter built from a
\* heading and its subheading are the normalized non-empty paragraphs that
\* lie between the subheading and the next heading, none of them one that
\* lies after the next heading; so the chapters of a document with several
\* headings share no paragraph: together they hold no more paragraphs than
\* the document has p elements.
C18_ParsUpToNextHeading ==
    pc \in {"parsed", "validated"} /\ OneToOne(docs[1]) =>
        LET header_titles == HeaderTitles(docs[1], PositionsFrom(docs[1], "h2", 1), 1, <<>>)
        IN  /\ Len(chapters) = Len(header_titles)
            /\ \A n \in 1..Len(chapters) :
                  chapters[n].pars = ParsUpToNextHeading(docs[1], header_titles[n].title)
            /\ Len(Flatten([n \in 1..Len(chapters) |-> chapters[n].pars]))
                  <= Len(find_all(docs[1], {"p"}))


\* C19: when the headings of a document and their subheadings are not in
\* one-to-one correspondence, two headings form a single chapter, the first
\* its header and the second its title, and any other number N of headings
\* (one heading alone forms no pair) is paired two at a time, (1, 2),
\* (3, 4), ...: every complete pair gives one chapter, N \div 2 chapters in
\* all, so four headings give two chapters.
C19_PairingFallback ==
    pc \in {"parsed", "validated"} /\ ~OneToOne(docs[1])
                                   /\ Len(PositionsFrom(docs[1], "h2", 1)) >= 2 =>
        LET chapter_headers == PositionsFrom(docs[1], "h2", 1)
            paired == [n \in 1..(Len(chapter_headers) \div 2) |->
                          _parse_structured_chapter(docs[1], chapter_headers[2 * n - 1],
                                                    chapter_headers[2 * n])]
        IN  /\ Len(chapters) = Len(chapter_headers) \div 2
            /\ \A n \in 1..Len(chapters) :
                  /\ chapters[n].seq = paired[n].seq
                  /\ chapters[n].title = paired[n].title


\* C20: every chapter _parse_chapters hands to the Merger that has no seq
\* has no title either, which is what the Merger asserts before it stitches:
\* on neither path is a chapter emitted with a title and an absent or empty
\* seq, a heading that matches the chapter header pattern without a numeral
\* included.
C20_NoSeqNoTitle ==
    pc \in {"parsed", "validated"} =>
        \A k \in 1..Len(chapters) : ~Truthy(chapters[k].seq) => ~Truthy(chapters[k].title)

=============================================================================
